---- MODULE Spec2Model ----
(***************************************************************************)
(* Verification model of the Vectra route planner and zone classifier.     *)
(*                                                                         *)
(*  - calculateAvoidingPath / pathIntersectsZone (src/src/pathfinding.js)  *)
(*  - isZoneActive / parseDateSafe (fetchActiveGeozones.js, held in        *)
(*    src/unnamed/part_004)                                                *)
(*                                                                         *)
(* Geometry is fixed-point: one grid unit is 1e-6 degree, the nudge offset *)
(* `off` of pathfinding.js.  Points are pairs <<x, y>> of integers; every  *)
(* coordinate the code computes in floating point (an intersection point,  *)
(* a nudged point, a centroid) is rounded to the grid.  The 1e-9 tolerance *)
(* of pathIntersectsZone is below the grid resolution, so |d| < 1e-9       *)
(* becomes |d| < Tol with Tol one grid unit (d = 0).  Rings are closed     *)
(* (first vertex repeated last) and indexed from 1, so JS index k is       *)
(* ring[k + 1].                                                            *)
(***************************************************************************)
EXTENDS Integers, Sequences, FiniteSets, TLC

VARIABLES
    start,          \* calculateAvoidingPath argument
    dest,           \* calculateAvoidingPath argument
    zones,          \* calculateAvoidingPath argument (list of features)
    budget,         \* a fourth call argument, as passed by the budget test
    intersectOrder, \* order in which the linked lineIntersect lists its points
    path,           \* let path
    iter,           \* let iter
    changed,        \* let changed
    zi,             \* position of zones.forEach (1-based)
    part,           \* position of flattenEach inside the zone (1-based)
    i,              \* let i (0-based, as in the code)
    intersected,    \* const intersected of the returned object
    pc,             \* control point of calculateAvoidingPath
    props,          \* isZoneActive argument
    now,            \* isZoneActive argument
    active,         \* value returned (or thrown) by isZoneActive
    flightArgs,     \* arguments of the utils.js flight functions
    called,         \* the utils.js functions that have returned
    verdict,        \* object returned by getFlightGoNoGo
    toIncident,     \* value returned by calculateGroundSpeedToIncident
    backHome,       \* value returned by calculateGroundSpeedBackHome
    avgAtCruise,    \* value returned by calculateAverageWindSpeedAt...
    gustAtCruise,   \* value returned by calculateMaxWindGustSpeedAt...
    fetchNow,       \* const now of fetchActiveGeozones, in hours
    masterZones,    \* features of the master geozone layer
    specificSet,    \* features of the Specific time layer
    generalSet,     \* features of the General time layer
    conditionSet,   \* features of the Condition layer
    activeMap,      \* const activeMap
    sourceMap,      \* const sourceMap
    fk,             \* position of the running for-of loop (1-based)
    fpc,            \* control point of fetchActiveGeozones
    fetched,        \* the array fetchActiveGeozones returns
    scene,          \* App: geometry of the selected mission (direct length, zones crossed)
    countryFeatures, \* App: countryFeaturesRef.current, flattened (zone ids)
    routeNoFlyZones, \* App: const [routeNoFlyZones, setRouteNoFlyZones]
    clearedZoneIds, \* App: const [clearedZoneIds, setClearedZoneIds]
    selected,       \* App: const [selected, setSelected] (TRUE: a mission is selected)
    flightPath,     \* App: const [flightPath, setFlightPath]
    disableFocus,   \* App: prop disableFocus
    mapLoaded,      \* App: mapRef.current && mapRef.current.isStyleLoaded()
    selectedCountryId, \* App: const [selectedCountryId, setSelectedCountryId]
    countrySources, \* App: the countries whose source uas-country-<id> is on the map
    pendingCountries, \* App: toggleCountry calls waiting for their fetch
    appNow,         \* App: Date.now(), in hours
    buildArgs,      \* buildPath arguments (ring, startIdx, endIdx, direction)
    bIdx,           \* buildPath: let idx
    bRes,           \* buildPath: const res
    bPc             \* control point of buildPath

vars == <<start, dest, zones, budget, intersectOrder, path, iter, changed, zi,
          part, i, intersected, pc, props, now, active, flightArgs, called,
          verdict, toIncident, backHome, avgAtCruise, gustAtCruise, fetchNow,
          masterZones, specificSet, generalSet, conditionSet, activeMap, sourceMap,
          fk, fpc, fetched, scene, countryFeatures, routeNoFlyZones,
          clearedZoneIds, selected, flightPath, disableFocus, mapLoaded,
          selectedCountryId, countrySources, pendingCountries, appNow,
          buildArgs, bIdx, bRes, bPc>>

plannerVars == <<start, dest, zones, budget, intersectOrder, path, iter, changed,
                 zi, part, i, intersected, pc>>

classifierVars == <<props, now, active>>

flightVars == <<flightArgs, called, verdict, toIncident, backHome, avgAtCruise,
                gustAtCruise>>

fetchVars == <<fetchNow, masterZones, specificSet, generalSet, conditionSet,
               activeMap, sourceMap, fk, fpc, fetched>>

\* the state of the other functions, left alone by the planner and classifier
appVars == <<scene, countryFeatures, routeNoFlyZones, clearedZoneIds, selected,
             flightPath, disableFocus, mapLoaded, selectedCountryId, countrySources,
             pendingCountries, appNow>>

\* the country layer state, left alone by handleClearZone and focusDestination
countryVars == <<selectedCountryId, countrySources, pendingCountries, appNow>>

\* one call of buildPath on its own
buildVars == <<buildArgs, bIdx, bRes, bPc>>

extraVars == <<flightVars, fetchVars, appVars, buildVars>>

\* what the utils.js functions leave alone
notFlightVars == <<plannerVars, classifierVars, fetchVars, appVars, buildVars>>

\* what fetchActiveGeozones leaves alone
notFetchVars == <<plannerVars, classifierVars, flightVars, appVars, buildVars>>

----------------------------------------------------------------------------
(* Arithmetic helpers                                                      *)

Abs(n) == IF n < 0 THEN -n ELSE n

\* n / d rounded to the nearest integer (halves away from zero), d # 0
RoundDiv(n, d) ==
    LET nn == IF d < 0 THEN -n ELSE n
        dd == Abs(d)
    IN  IF nn >= 0 THEN (2 * nn + dd) \div (2 * dd)
                   ELSE -((2 * (-nn) + dd) \div (2 * dd))

RECURSIVE IsqrtBetween(_, _, _)
IsqrtBetween(n, lo, hi) ==
    IF lo >= hi THEN lo
    ELSE LET mid == (lo + hi + 1) \div 2
         IN  IF mid * mid <= n THEN IsqrtBetween(n, mid, hi)
                               ELSE IsqrtBetween(n, lo, mid - 1)

\* floor(Math.sqrt(n)) for 0 <= n
Isqrt(n) == IsqrtBetween(n, 0, 40000)

\* distance between two points in tenths of a grid unit
Dist10(p, q) ==
    Isqrt(100 * ((p[1] - q[1]) * (p[1] - q[1]) + (p[2] - q[2]) * (p[2] - q[2])))

Dist2(p, q) == (p[1] - q[1]) * (p[1] - q[1]) + (p[2] - q[2]) * (p[2] - q[2])

----------------------------------------------------------------------------
(* @turf/turf primitives used by pathfinding.js, on the grid               *)

\* length(lineString(pts)), in tenths of a grid unit
RECURSIVE length(_)
length(pts) ==
    IF Len(pts) < 2 THEN 0
    ELSE Dist10(pts[1], pts[2]) + length(Tail(pts))

\* the two-segment primitive of lineIntersect: the crossing point of the closed
\* segments a-b and c-d, as a list of 0 or 1 points; parallel segments give none
intersects(a, b, c, d) ==
    LET x1 == a[1]  y1 == a[2]  x2 == b[1]  y2 == b[2]
        x3 == c[1]  y3 == c[2]  x4 == d[1]  y4 == d[2]
        denom == (y4 - y3) * (x2 - x1) - (x4 - x3) * (y2 - y1)
        numeA == (x4 - x3) * (y1 - y3) - (y4 - y3) * (x1 - x3)
        numeB == (x2 - x1) * (y1 - y3) - (y2 - y1) * (x1 - x3)
        inUnit(n) == IF denom > 0 THEN 0 <= n /\ n <= denom
                                  ELSE denom <= n /\ n <= 0
    IN  IF denom = 0 THEN <<>>
        ELSE IF inUnit(numeA) /\ inUnit(numeB)
             THEN << <<x1 + RoundDiv(numeA * (x2 - x1), denom),
                       y1 + RoundDiv(numeA * (y2 - y1), denom)>> >>
             ELSE <<>>

Contains(seq, x) == \E k \in 1..Len(seq) : seq[k] = x

RECURSIVE AppendNew(_, _)
AppendNew(seq, more) ==
    IF more = <<>> THEN seq
    ELSE AppendNew(IF Contains(seq, Head(more)) THEN seq ELSE Append(seq, Head(more)),
                   Tail(more))

RECURSIVE Reverse(_)
Reverse(seq) == IF seq = <<>> THEN <<>> ELSE Append(Reverse(Tail(seq)), Head(seq))

\* crossings of the segment a-b with the edges j, j+1, ... of one closed ring
RECURSIVE RingHits(_, _, _, _)
RingHits(a, b, ring, j) ==
    IF j >= Len(ring) THEN <<>>
    ELSE intersects(a, b, ring[j], ring[j + 1]) \o RingHits(a, b, ring, j + 1)

RECURSIVE RingsHits(_, _, _)
RingsHits(a, b, rings) ==
    IF rings = <<>> THEN <<>>
    ELSE RingHits(a, b, Head(rings), 1) \o RingsHits(a, b, Tail(rings))

RECURSIVE LineHits(_, _, _)
LineHits(line, rings, k) ==
    IF k >= Len(line) THEN <<>>
    ELSE RingsHits(line[k], line[k + 1], rings) \o LineHits(line, rings, k + 1)

\* lineIntersect(lineString(line), polygonToLine(poly)).features: the distinct
\* crossing points.  Their order is not part of the library's contract: "ring"
\* lists them in ring-edge order, "reverse" in the opposite order.
lineIntersect(line, rings) ==
    LET found == AppendNew(<<>>, LineHits(line, rings, 1))
    IN  IF intersectOrder = "reverse" THEN Reverse(found) ELSE found

\* inRing of booleanPointInPolygon, boundary included (ignoreBoundary = false)
inRing(pt, ring) ==
    LET n == Len(ring) - 1
        prev(k) == IF k = 1 THEN n ELSE k - 1
        onBoundary(k) ==
            LET xi == ring[k][1]  yi == ring[k][2]
                xj == ring[prev(k)][1]  yj == ring[prev(k)][2]
            IN  /\ pt[2] * (xi - xj) + yi * (xj - pt[1]) + yj * (pt[1] - xi) = 0
                /\ (xi - pt[1]) * (xj - pt[1]) <= 0
                /\ (yi - pt[2]) * (yj - pt[2]) <= 0
        crosses(k) ==
            LET xi == ring[k][1]  yi == ring[k][2]
                xj == ring[prev(k)][1]  yj == ring[prev(k)][2]
            IN  /\ (yi > pt[2]) # (yj > pt[2])
                /\ IF yj - yi > 0
                   THEN (pt[1] - xi) * (yj - yi) < (xj - xi) * (pt[2] - yi)
                   ELSE (pt[1] - xi) * (yj - yi) > (xj - xi) * (pt[2] - yi)
    IN  \/ \E k \in 1..n : onBoundary(k)
        \/ Cardinality({k \in 1..n : crosses(k)}) % 2 = 1

\* booleanPointInPolygon(point(pt), poly) for a Polygon or MultiPolygon given by
\* the outer rings of its parts
booleanPointInPolygon(pt, rings) == \E r \in 1..Len(rings) : inRing(pt, rings[r])

RECURSIVE SumCoord(_, _, _)
SumCoord(ring, k, c) ==
    IF k = 0 THEN 0 ELSE ring[k][c] + SumCoord(ring, k - 1, c)

\* centroid(poly): mean of the ring's vertices, the closing vertex left out
centroid(ring) ==
    LET n == Len(ring) - 1
    IN  <<RoundDiv(SumCoord(ring, n, 1), n), RoundDiv(SumCoord(ring, n, 2), n)>>

\* nearestPointOnLine(lineString(ring), point(pt)).properties.index: the scan
\* over the ring's segments keeps the first strictly closest candidate among
\* each segment's start vertex (index k), stop vertex (index k + 1) and the
\* foot of the perpendicular when it falls on the segment (index k).
\* best = <<squared distance, index>>, distance -1 standing for Infinity.
RECURSIVE NearestScan(_, _, _, _)
NearestScan(ring, pt, k, best) ==
    IF k >= Len(ring) THEN best
    ELSE LET c == ring[k]
             d == ring[k + 1]
             ex == d[1] - c[1]
             ey == d[2] - c[2]
             len2 == ex * ex + ey * ey
             dot == (pt[1] - c[1]) * ex + (pt[2] - c[2]) * ey
             closer(dd, b) == b[1] = -1 \/ dd < b[1]
             b1 == IF closer(Dist2(pt, c), best) THEN <<Dist2(pt, c), k - 1>> ELSE best
             b2 == IF closer(Dist2(pt, d), b1) THEN <<Dist2(pt, d), k>> ELSE b1
             hasFoot == len2 > 0 /\ 0 <= dot /\ dot <= len2
             foot == IF hasFoot
                     THEN <<c[1] + RoundDiv(dot * ex, len2), c[2] + RoundDiv(dot * ey, len2)>>
                     ELSE c
             b3 == IF hasFoot /\ closer(Dist2(pt, foot), b2)
                   THEN <<Dist2(pt, foot), k - 1>> ELSE b2
         IN  NearestScan(ring, pt, k + 1, b3)

nearestPointOnLineIndex(ring, pt) == NearestScan(ring, pt, 1, <<-1, 0>>)[2]

----------------------------------------------------------------------------
(* src/src/pathfinding.js                                                  *)

\* const off = 1e-6 inside nudge: one grid unit
off == 1

\* the 1e-9 coincidence tolerance of pathIntersectsZone: below one grid unit
Tol == 1

maxIterations == 5

\* cap on path.length: the path array cannot grow past it
MaxPath == 24

GeometryTypes == {"Polygon", "MultiPolygon"}

\* pathIntersectsZone(path, zone)
pathIntersectsZone(pth, zone) ==
    IF zone.type \notin GeometryTypes THEN FALSE
    ELSE LET intersections == lineIntersect(pth, zone.parts)
             atPathPoint(f) ==
                 \E k \in 1..Len(pth) :
                     Abs(pth[k][1] - f[1]) < Tol /\ Abs(pth[k][2] - f[2]) < Tol
             filtered == SelectSeq(intersections, LAMBDA f : ~atPathPoint(f))
         IN  \/ Len(filtered) > 0
             \/ \E k \in 1..Len(pth) : booleanPointInPolygon(pth[k], zone.parts)

\* findSegmentIndex(ring, pt)
findSegmentIndex(ring, pt) == nearestPointOnLineIndex(ring, pt)

\* buildPath(ring, startIdx, endIdx, direction): the while loop, one vertex a turn
RECURSIVE buildPath(_, _, _, _)
buildPath(ring, startIdx, endIdx, direction) ==
    LET len == Len(ring) - 1
        idx == (startIdx + direction + len) % len
    IN  IF startIdx = endIdx THEN <<>>
        ELSE <<ring[idx + 1]>> \o buildPath(ring, idx, endIdx, direction)

\* const nudge = pt => ... with center = centroid(poly)
nudge(pt, center) ==
    LET dx == pt[1] - center[1]
        dy == pt[2] - center[2]
        len10 == IF Dist10(pt, center) = 0 THEN 10 ELSE Dist10(pt, center)
    IN  <<pt[1] + RoundDiv(10 * off * dx, len10), pt[2] + RoundDiv(10 * off * dy, len10)>>

NudgeAll(pts, center) == [k \in 1..Len(pts) |-> nudge(pts[k], center)]

\* SegmentInts without the booleanPointInPolygon tests
SegmentIntsUnguarded(a, b, ring) ==
    <<a>> \o lineIntersect(<<a, b>>, <<ring>>) \o <<b>>

\* let ints: the crossings of segment a-b with the polygon, a put first and b
\* last when they lie in the polygon
SegmentInts(a, b, ring) ==
    LET crossings == lineIntersect(<<a, b>>, <<ring>>)
        withA == IF booleanPointInPolygon(a, <<ring>>) THEN <<a>> \o crossings
                                                       ELSE crossings
    IN  IF booleanPointInPolygon(b, <<ring>>) THEN Append(withA, b) ELSE withA

\* the comparison turned round: const detour = cwLen > ccwLen ? cw : ccw
DetourLonger(ints, ring) ==
    LET p1 == ints[1]
        p2 == ints[Len(ints)]
        center == centroid(ring)
        sIdx == findSegmentIndex(ring, p1)
        eIdx == findSegmentIndex(ring, p2)
        cw == NudgeAll(<<p1>> \o buildPath(ring, sIdx, eIdx, 1) \o <<p2>>, center)
        ccw == NudgeAll(<<p1>> \o buildPath(ring, sIdx, eIdx, -1) \o <<p2>>, center)
    IN  IF length(cw) > length(ccw) THEN cw ELSE ccw

\* const detour = cwLen < ccwLen ? cw : ccw
Detour(ints, ring) ==
    LET p1 == ints[1]
        p2 == ints[Len(ints)]
        center == centroid(ring)
        sIdx == findSegmentIndex(ring, p1)
        eIdx == findSegmentIndex(ring, p2)
        cw == NudgeAll(<<p1>> \o buildPath(ring, sIdx, eIdx, 1) \o <<p2>>, center)
        ccw == NudgeAll(<<p1>> \o buildPath(ring, sIdx, eIdx, -1) \o <<p2>>, center)
    IN  IF length(cw) < length(ccw) THEN cw ELSE ccw

\* the splice one index early: path.splice(i, 2, ...detour, b)
SpliceAtI(pth, at, detour, b) ==
    SubSeq(pth, 1, at) \o detour \o <<b>> \o SubSeq(pth, at + 3, Len(pth))

\* path.splice(i + 1, 1, ...detour, b)
Splice(pth, at, detour, b) ==
    SubSeq(pth, 1, at + 1) \o detour \o <<b>> \o SubSeq(pth, at + 3, Len(pth))

\* the filter applied to the direct segment instead of the final path
IntersectedDirect(pth, zs) ==
    SelectSeq(zs, LAMBDA z : pathIntersectsZone(<<pth[1], pth[Len(pth)]>>, z))

\* zones.filter(z => pathIntersectsZone(path, z))
Intersected(pth, zs) == SelectSeq(zs, LAMBDA z : pathIntersectsZone(pth, z))

\* the polygon flattenEach hands to the callback
CurrentRing == zones[zi].parts[part]

CurrentInts == SegmentInts(path[i + 1], path[i + 2], CurrentRing)

\* while (iter < maxIterations) { let changed = false; zones.forEach(...
PassBegin ==
    /\ pc = "pass"
    /\ iter < maxIterations
    /\ changed' = FALSE
    /\ zi' = 1
    /\ part' = 1
    /\ pc' = "zone"
    /\ UNCHANGED <<start, dest, zones, budget, intersectOrder, path, iter, i,
                   intersected, classifierVars, extraVars>>

\* the while condition fails after maxIterations passes: fall through to return
PassLimit ==
    /\ pc = "pass"
    /\ iter >= maxIterations
    /\ intersected' = Intersected(path, zones)
    /\ pc' = "done"
    /\ UNCHANGED <<start, dest, zones, budget, intersectOrder, path, iter, changed,
                   zi, part, i, classifierVars, extraVars>>

\* flattenEach callback entered for the next polygon: let i = 0
PolyBegin ==
    /\ pc = "zone"
    /\ zi <= Len(zones)
    /\ i' = 0
    /\ pc' = "scan"
    /\ UNCHANGED <<start, dest, zones, budget, intersectOrder, path, iter, changed,
                   zi, part, intersected, classifierVars, extraVars>>

\* if (ints.length >= 2) { ... path.splice(...); i += detour.length; changed = true }
ScanDetour ==
    /\ pc = "scan"
    /\ i < Len(path) - 1
    /\ Len(CurrentInts) >= 2
    /\ LET detour == Detour(CurrentInts, CurrentRing)
       IN  /\ Len(path) + Len(detour) <= MaxPath
           /\ path' = Splice(path, i, detour, path[i + 2])
           /\ i' = i + Len(detour)
    /\ changed' = TRUE
    /\ UNCHANGED <<start, dest, zones, budget, intersectOrder, iter, zi, part,
                   intersected, pc, classifierVars, extraVars>>

\* the same branch when the splice would grow the array past its cap: the call
\* ends without returning
ScanOverflow ==
    /\ pc = "scan"
    /\ i < Len(path) - 1
    /\ Len(CurrentInts) >= 2
    /\ Len(path) + Len(Detour(CurrentInts, CurrentRing)) > MaxPath
    /\ pc' = "overflow"
    /\ UNCHANGED <<start, dest, zones, budget, intersectOrder, path, iter, changed,
                   zi, part, i, intersected, classifierVars, extraVars>>

\* else { i++ }
ScanAdvance ==
    /\ pc = "scan"
    /\ i < Len(path) - 1
    /\ Len(CurrentInts) < 2
    /\ i' = i + 1
    /\ UNCHANGED <<start, dest, zones, budget, intersectOrder, path, iter, changed,
                   zi, part, intersected, pc, classifierVars, extraVars>>

\* while (i < path.length - 1) fails: the callback returns, flattenEach and
\* forEach move on
ScanEnd ==
    /\ pc = "scan"
    /\ i >= Len(path) - 1
    /\ IF part < Len(zones[zi].parts)
       THEN part' = part + 1 /\ zi' = zi
       ELSE part' = 1 /\ zi' = zi + 1
    /\ pc' = "zone"
    /\ UNCHANGED <<start, dest, zones, budget, intersectOrder, path, iter, changed,
                   i, intersected, classifierVars, extraVars>>

\* if (!changed) break; then the return statement
PassBreak ==
    /\ pc = "zone"
    /\ zi > Len(zones)
    /\ ~changed
    /\ intersected' = Intersected(path, zones)
    /\ pc' = "done"
    /\ UNCHANGED <<start, dest, zones, budget, intersectOrder, path, iter, changed,
                   zi, part, i, classifierVars, extraVars>>

\* iter++
PassRepeat ==
    /\ pc = "zone"
    /\ zi > Len(zones)
    /\ changed
    /\ iter' = iter + 1
    /\ pc' = "pass"
    /\ UNCHANGED <<start, dest, zones, budget, intersectOrder, path, changed,
                   zi, part, i, intersected, classifierVars, extraVars>>

----------------------------------------------------------------------------
(* Planner inputs: the geometry of pathfinding.test.jsx, 100 times smaller *)

square(x0, y0) ==
    << <<x0, y0>>, <<x0, y0 + 100>>, <<x0 + 100, y0 + 100>>, <<x0 + 100, y0>>, <<x0, y0>> >>

polygon == [type |-> "Polygon", parts |-> <<square(0, 0)>>]

multipolygon == [type |-> "MultiPolygon", parts |-> <<square(0, 0), square(200, 0)>>]

zone1 == polygon

zone2 == [type |-> "Polygon", parts |-> <<square(100, 0)>>]

ZoneLists == { <<>>, <<polygon>>, <<multipolygon>>, <<zone1, zone2>>, <<zone2, zone1>> }

\* <<start, dest>> pairs
Routes ==
    { << <<-50, 50>>, <<150, 50>> >>,       \* across the square, left to right
      << <<150, 50>>, <<-50, 50>> >>,       \* the same, right to left
      << <<50, 150>>, <<50, -50>> >>,       \* top to bottom
      << <<-100, -100>>, <<-200, -200>> >>, \* away from every zone
      << <<-50, 150>>, <<350, 150>> >>,     \* above every zone
      << <<-50, 80>>, <<80, -50>> >>,       \* across the corner (0, 0)
      << <<-50, 50>>, <<250, 50>> >>,       \* across both adjacent zones
      << <<150, 50>>, <<350, 50>> >>,       \* across the second part
      << <<-50, 50>>, <<50, 50>> >>,        \* destination inside the square
      << <<50, 50>>, <<-50, 50>> >> }       \* start inside the square

\* the budget argument: left out (undefined, -1 here) or 0
Budgets == {-1, 0}

IntersectOrders == {"ring", "reverse"}

----------------------------------------------------------------------------
(* fetchActiveGeozones.js (src/unnamed/part_004): parseDateSafe, isZoneActive *)

\* a property that is undefined
Absent == "<undefined>"

\* a date-valued property: missing (undefined, null, ''), a string new Date()
\* cannot parse, or a date whose getTime() is t
NoDate == [k |-> "absent", t |-> 0]

BadDate == [k |-> "invalid", t |-> 0]

DateAt(t) == [k |-> "date", t |-> t]

\* the value null of parseDateSafe
Null == [null |-> TRUE, t |-> 0]

\* parseDateSafe(val)
parseDateSafe(val) ==
    IF val.k = "absent" THEN Null
    ELSE IF val.k = "invalid" THEN Null
    ELSE [null |-> FALSE, t |-> val.t]

\* truthiness of a parseDateSafe result: null and the number 0 are falsy
Truthy(d) == ~d.null /\ d.t # 0

\* status.trim().toLowerCase()
TrimLower(str) ==
    CASE str = " Inactive " -> "inactive"
      [] str = "INACTIVE"   -> "inactive"
      [] str = "Soon "      -> "soon"
      [] OTHER              -> str

\* statusLabel.toLowerCase()
ToLowerCase(str) ==
    CASE str = "Recurring"  -> "recurring"
      [] str = "RECURRING"  -> "recurring"
      [] OTHER              -> str

IsString(v) == v # Absent

\* const checkWindow = (start, end, permanent) => ... (now is the closure's now)
checkWindowLooseOrder(startVal, endVal, permanent, t) ==
    LET s == parseDateSafe(startVal)
        e == parseDateSafe(endVal)
    IN  IF Truthy(s) /\ t < s.t THEN FALSE
        ELSE IF Truthy(e) /\ t > e.t THEN FALSE
        ELSE IF permanent = "bool:true" \/ permanent = "str:1" THEN TRUE
        ELSE (~Truthy(s) \/ t >= s.t) /\ (~Truthy(e) \/ t <= e.t)

checkWindow(startVal, endVal, permanent, t) ==
    LET s == parseDateSafe(startVal)
        e == parseDateSafe(endVal)
    IN  IF permanent = "bool:true" \/ permanent = "str:1" THEN TRUE
        ELSE IF Truthy(s) /\ t < s.t THEN FALSE
        ELSE IF Truthy(e) /\ t > e.t THEN FALSE
        ELSE (~Truthy(s) \/ t >= s.t) /\ (~Truthy(e) \/ t <= e.t)

\* lines 97-102: the activationStatus rule; "next" when it does not decide
activationStatusRuleOnlySoon(p) ==
    IF IsString(p.activationStatus) /\ TrimLower(p.activationStatus) = "soon"
    THEN "true" ELSE "next"

activationStatusRule(p) ==
    IF ~IsString(p.activationStatus) THEN "next"
    ELSE IF TrimLower(p.activationStatus) = "inactive" THEN "false"
    ELSE IF TrimLower(p.activationStatus) = "soon" THEN "true"
    ELSE "next"

AsResult(b) == IF b THEN "true" ELSE "false"

\* lines 122-144: the activationSources stage
activationSourcesRule(raw, t) ==
    IF raw.kind = "absent" THEN "true"                \* if (!raw) return true
    ELSE IF raw.kind = "badjson" THEN "true"          \* JSON.parse throws, caught
    ELSE IF raw.kind = "jsonnull" THEN "TypeError"    \* sources is null: sources.Specific throws
    ELSE LET sources == raw.value
             specific == sources.Specific
             general == sources.General
             condition == sources.Condition
             activation == parseDateSafe(condition.activationdate)
         IN  IF checkWindow(specific.startTime, specific.endTime, Absent, t) THEN "true"
             ELSE IF checkWindow(general.startDateTime, general.endDateTime,
                                 general.permanent, t) THEN "true"
             ELSE IF ~Truthy(activation) \/ t >= activation.t THEN "true"
             ELSE "false"

\* isZoneActive(props, now): "true", "false", or the exception it throws
isZoneActive(p, t) ==
    IF ~p.given THEN "false"
    ELSE IF activationStatusRule(p) # "next" THEN activationStatusRule(p)
    ELSE IF p.active = "bool:true" THEN "true"
    ELSE IF p.active = "bool:false" THEN "false"
    ELSE IF IsString(p.status) /\ ToLowerCase(p.status) = "recurring"
         THEN AsResult(checkWindow(p.startTime, p.endTime, Absent, t))
    ELSE activationSourcesRule(p.activationSources, t)

\* one call of isZoneActive
Classify ==
    /\ active = "pending"
    /\ active' = isZoneActive(props, now)
    /\ UNCHANGED <<props, now, plannerVars, extraVars>>

----------------------------------------------------------------------------
(* Classifier inputs                                                       *)

\* largest value of now
MaxNow == 5

DateVals == {NoDate, BadDate, DateAt(0), DateAt(2), DateAt(4)}

\* a source record is {} when the source or its properties are missing
NoSpecific == [present |-> FALSE, startTime |-> NoDate, endTime |-> NoDate]

NoGeneral == [present |-> FALSE, startDateTime |-> NoDate, endDateTime |-> NoDate,
              permanent |-> Absent]

NoCondition == [present |-> FALSE, activationdate |-> NoDate]

Specifics ==
    {NoSpecific} \cup
    { [present |-> TRUE, startTime |-> w[1], endTime |-> w[2]] :
        w \in { <<DateAt(2), DateAt(4)>>, <<DateAt(4), NoDate>>, <<NoDate, DateAt(2)>>,
                <<BadDate, DateAt(4)>>, <<NoDate, NoDate>> } }

Generals ==
    {NoGeneral} \cup
    { [present |-> TRUE, startDateTime |-> w[1], endDateTime |-> w[2], permanent |-> pm] :
        w \in { <<DateAt(2), DateAt(4)>>, <<DateAt(4), NoDate>>, <<NoDate, DateAt(2)>> },
        pm \in {Absent, "bool:true", "str:1", "bool:false"} }

Conditions ==
    {NoCondition} \cup
    { [present |-> TRUE, activationdate |-> d] : d \in {NoDate, BadDate, DateAt(2), DateAt(4)} }

NoSources == [Specific |-> NoSpecific, General |-> NoGeneral, Condition |-> NoCondition]

SourceSets == [Specific : Specifics, General : Generals, Condition : Conditions]

\* props.activationSources: missing, a string that is not JSON, the JSON text
\* null, the JSON text of an object, or an already parsed object
ActivationSources ==
    { [kind |-> "absent", value |-> NoSources],
      [kind |-> "badjson", value |-> NoSources],
      [kind |-> "jsonnull", value |-> NoSources] } \cup
    [kind : {"json", "object"}, value : SourceSets]

FewActivationSources ==
    { a \in ActivationSources :
        \/ a.kind # "json"
        \/ /\ a.value.Specific \in {NoSpecific, [present |-> TRUE, startTime |-> DateAt(4), endTime |-> NoDate]}
           /\ a.value.General.permanent \in {Absent, "bool:true"}
           /\ a.value.General.startDateTime # DateAt(2)
           /\ a.value.Condition \in {NoCondition, [present |-> TRUE, activationdate |-> DateAt(4)]} }

NullProps ==
    [given |-> FALSE, activationStatus |-> Absent, active |-> Absent, status |-> Absent,
     startTime |-> NoDate, endTime |-> NoDate, permanent |-> Absent,
     activationSources |-> [kind |-> "absent", value |-> NoSources]]

\* property bags that exercise the early rules
EarlyRuleProps ==
    [given : {TRUE},
     activationStatus : {Absent, "inactive", " Inactive ", "soon", "active"},
     active : {Absent, "bool:true", "bool:false", "str:true"},
     status : {Absent, "recurring", "Recurring", "permanent"},
     startTime : {NoDate, DateAt(2)},
     endTime : {NoDate, DateAt(4), DateAt(0)},
     permanent : {Absent, "bool:true"},
     activationSources : { a \in FewActivationSources : a.kind # "object" }]

\* property bags that reach the activationSources stage or stop just before it
SourceStageProps ==
    [given : {TRUE},
     activationStatus : {Absent, "active"},
     active : {Absent},
     status : {Absent, "permanent"},
     startTime : {NoDate},
     endTime : {NoDate},
     permanent : {Absent},
     activationSources : ActivationSources]

PropBags == {NullProps} \cup EarlyRuleProps \cup SourceStageProps

----------------------------------------------------------------------------
(* utils.js: wind model, ground speeds, getFlightGoNoGo                    *)
(* Speeds are integers in thousandths of a metre per second, distances in  *)
(* metres, angles in whole degrees.  A JS number argument is a record: a   *)
(* number, NaN, null or undefined.                                         *)

Num(v) == [k |-> "number", v |-> v]

NaN == [k |-> "NaN", v |-> 0]

NullArg == [k |-> "null", v |-> 0]

UndefinedArg == [k |-> "undefined", v |-> 0]

\* thousandths per unit
Milli == 1000

cruiseAltitudeInMeters == 90

maxTotalAirspeedInMetersPerSecond == 13

nokiaFleetControlGroundSpeedLimitInMetersPerSecond == 13

practicalBatteryCapacityInAh == 21

droneTakeOffCurrentCapacityConsumptionInAh == 1

droneLandingCurrentCapacityConsumptionInAh == 1

droneFlightCurrentCapacityConsumptionAtMaxSpeedInAhPerMinute == 1

droneHoverCurrentCapacityConsumptionInAhPerMinute == 1

weatherStationAnemometerAltitudeAboveGroundInMeters == 90

gustWindSpeedLimitInMetersPerSecond == 20

groundSpeedToDestinationInMetersPerSecond == 13

\* groundSpeedToHomeInMetersPerSecond = 8.5, in tenths
groundSpeedToHomeInTenths == 85

\* ToInt32 of a value in thousandths: NaN gives 0, a number loses its fraction
\* (towards zero); the values used stay inside the 32-bit range
ToInt32(x) ==
    IF x.k # "number" THEN 0
    ELSE IF x.v >= 0 THEN (x.v \div Milli) * Milli
    ELSE -(((-x.v) \div Milli) * Milli)

\* x * (cruise / anemometer): NaN stays NaN
TimesAltitudeRatio(x) ==
    IF x.k # "number" THEN NaN
    ELSE Num((x.v * cruiseAltitudeInMeters)
                 \div weatherStationAnemometerAltitudeAboveGroundInMeters)

\* avgWindSpeed * (cruise / anemometer) ^ hellmanExponentOfWindModel: in JS ^
\* is bitwise XOR and binds looser than *, so the product is converted with
\* ToInt32 and XORed with ToInt32(0.250) = 0, which leaves it unchanged
calculateAverageWindSpeedAtDroneCruiseAltitudeInMetersPerSecond(avgWindSpeed) ==
    ToInt32(TimesAltitudeRatio(avgWindSpeed))

calculateMaxWindGustSpeedAtDroneCruiseAltitudeInMetersPerSecond(maxGustSpeed) ==
    ToInt32(TimesAltitudeRatio(maxGustSpeed))

\* calculateHeadingToIncidentIn360DegreesWithRespectToNorth, for the pairs of
\* points where atan2 is exact: same meridian, or both on the equator
calculateHeadingToIncidentIn360DegreesWithRespectToNorth(src, dst) ==
    IF dst.lon = src.lon THEN (IF dst.lat >= src.lat THEN 0 ELSE 180)
    ELSE IF dst.lon > src.lon THEN 90 ELSE 270

\* windFromDeg - heading
calculateHeadingDifferenceDronevsWind(windFromDeg, src, dst) ==
    IF windFromDeg.k # "number" THEN NaN
    ELSE Num(windFromDeg.v
             - calculateHeadingToIncidentIn360DegreesWithRespectToNorth(src, dst))

\* 1000 * sin of a multiple of 30 degrees
SinTable == <<0, 500, 866, 1000, 866, 500, 0, -500, -866, -1000, -866, -500>>

SinMilli(deg) == SinTable[((deg % 360) \div 30) + 1]

CosMilli(deg) == SinMilli(deg + 90)

\* -adjustedWindSpeed * Math.cos(toRadians(headingDifference))
calculateWindSpeedComponentParallelToDroneHeadingTowardsIncident(a) ==
    LET adjustedWindSpeed ==
            calculateAverageWindSpeedAtDroneCruiseAltitudeInMetersPerSecond(a.windSpeed)
        headingDifference ==
            calculateHeadingDifferenceDronevsWind(a.windFromDeg, a.src, a.dst)
    IN  IF headingDifference.k # "number" THEN NaN
        ELSE Num(RoundDiv(-adjustedWindSpeed * CosMilli(headingDifference.v), Milli))

\* -adjustedWindSpeed * Math.sin(toRadians(headingDifference))
calculateWindSpeedComponentPerpendicularToDirectionOfDroneHeading(a) ==
    LET adjustedWindSpeed ==
            calculateAverageWindSpeedAtDroneCruiseAltitudeInMetersPerSecond(a.windSpeed)
        headingDifference ==
            calculateHeadingDifferenceDronevsWind(a.windFromDeg, a.src, a.dst)
    IN  IF headingDifference.k # "number" THEN NaN
        ELSE Num(RoundDiv(-adjustedWindSpeed * SinMilli(headingDifference.v), Milli))

\* Math.round(val * 2) / 2: Math.round rounds halves up
roundToNearestHalf(val) == ((2 * val + 500) \div Milli) * 500

\* let groundSpeed of both ground-speed functions before rounding; sign is +1
\* towards the incident and -1 back home
RawGroundSpeed(a, sign) ==
    LET adjustedWindSpeed ==
            calculateAverageWindSpeedAtDroneCruiseAltitudeInMetersPerSecond(a.windSpeed)
        maxGust ==
            calculateMaxWindGustSpeedAtDroneCruiseAltitudeInMetersPerSecond(a.gustSpeed)
        windspeedPerpendicular ==
            calculateWindSpeedComponentPerpendicularToDirectionOfDroneHeading(a)
        windspeedParallel ==
            calculateWindSpeedComponentParallelToDroneHeadingTowardsIncident(a)
        airspeed == maxTotalAirspeedInMetersPerSecond * Milli
        conditionsOkay ==
            /\ adjustedWindSpeed < airspeed
            /\ maxGust < gustWindSpeedLimitInMetersPerSecond * Milli
    IN  IF /\ conditionsOkay
           /\ windspeedPerpendicular.k = "number"
           /\ Abs(windspeedPerpendicular.v) <= airspeed
        THEN Isqrt(airspeed * airspeed
                   - windspeedPerpendicular.v * windspeedPerpendicular.v)
             + sign * windspeedParallel.v
        ELSE 0

Min(x, y) == IF x < y THEN x ELSE y

\* the rounding and the clamp without the 0 -> 0.01 replacement
FinishGroundSpeedKeepsZero(raw) ==
    Min(roundToNearestHalf(raw),
        nokiaFleetControlGroundSpeedLimitInMetersPerSecond * Milli)

\* rounding, the 0 -> 0.01 replacement and the clamp, shared by both functions
FinishGroundSpeed(raw) ==
    LET groundSpeed == roundToNearestHalf(raw)
    IN  Min(IF groundSpeed = 0 THEN 10 ELSE groundSpeed,
            nokiaFleetControlGroundSpeedLimitInMetersPerSecond * Milli)

calculateGroundSpeedBackHome(a) == FinishGroundSpeed(RawGroundSpeed(a, -1))

calculateGroundSpeedToIncident(a) == FinishGroundSpeed(RawGroundSpeed(a, 1))

\* JavaScript numbers of the battery arithmetic are IEEE-754 doubles. A double
\* is modelled here by its sign and its magnitude; the magnitude is a whole
\* number of 2^-60, written in four limbs of 20 bits, lowest limb first (the
\* fourth limb counts the whole units and is left unbounded). Every operation
\* computes the exact result and rounds it to 53 significant bits, ties to
\* even. The distances of the model keep every quotient above 2^-7, where the
\* 60 fraction bits hold the 53 significant bits and the rounding bit.
LimbBase == 1048576

LimbBits == 20

SignificandBits == 53

RECURSIVE Pow2(_)
Pow2(n) == IF n = 0 THEN 1 ELSE 2 * Pow2(n - 1)

RECURSIVE BitLen(_)
BitLen(n) == IF n = 0 THEN 0 ELSE 1 + BitLen(n \div 2)

MagZero == <<0, 0, 0, 0>>

MagOfInt(n) == <<0, 0, 0, n>>

\* the number of bits of a magnitude
MagBits(m) ==
    IF m[4] > 0 THEN 3 * LimbBits + BitLen(m[4])
    ELSE IF m[3] > 0 THEN 2 * LimbBits + BitLen(m[3])
    ELSE IF m[2] > 0 THEN LimbBits + BitLen(m[2])
    ELSE BitLen(m[1])

MagLess(x, y) ==
    \E j \in 1..4 : x[j] < y[j] /\ \A h \in (j + 1)..4 : x[h] = y[h]

MagAdd(x, y) ==
    LET s1 == x[1] + y[1]
        s2 == x[2] + y[2] + s1 \div LimbBase
        s3 == x[3] + y[3] + s2 \div LimbBase
    IN  <<s1 % LimbBase, s2 % LimbBase, s3 % LimbBase,
          x[4] + y[4] + s3 \div LimbBase>>

\* x - y for x >= y
MagSub(x, y) ==
    LET d1 == x[1] - y[1]
        b1 == IF d1 < 0 THEN 1 ELSE 0
        d2 == x[2] - y[2] - b1
        b2 == IF d2 < 0 THEN 1 ELSE 0
        d3 == x[3] - y[3] - b2
        b3 == IF d3 < 0 THEN 1 ELSE 0
    IN  <<d1 + b1 * LimbBase, d2 + b2 * LimbBase, d3 + b3 * LimbBase,
          x[4] - y[4] - b3>>

\* x * k for a small whole k
MagTimes(x, k) ==
    LET p1 == x[1] * k
        p2 == x[2] * k + p1 \div LimbBase
        p3 == x[3] * k + p2 \div LimbBase
    IN  <<p1 % LimbBase, p2 % LimbBase, p3 % LimbBase,
          x[4] * k + p3 \div LimbBase>>

\* x / n for a small whole n: the quotient cut at 2^-60, and whether anything
\* was cut off
MagDiv(x, n) ==
    LET t3 == (x[4] % n) * LimbBase + x[3]
        t2 == (t3 % n) * LimbBase + x[2]
        t1 == (t2 % n) * LimbBase + x[1]
    IN  [q |-> <<t1 \div n, t2 \div n, t3 \div n, x[4] \div n>>,
         inexact |-> t1 % n # 0]

\* the sum kept if the part cut off is below half a unit, and the next
\* multiple of the unit if it is above; a tie goes up if tieUp
RoundDecide(kept, unit, twiceLow, tieUp) ==
    IF MagLess(unit, twiceLow) \/ (twiceLow = unit /\ tieUp)
    THEN MagAdd(kept, unit)
    ELSE kept

RoundWith(m, low, unit, tieUp) ==
    RoundDecide(MagSub(m, low), unit, MagTimes(low, 2), tieUp)

\* limb j of the part of m below bit a * 20 + log2(p)
LowLimb(m, j, a, p) ==
    IF j <= a THEN m[j] ELSE IF j = a + 1 THEN m[j] % p ELSE 0

\* limb j of the unit in the last place, 2^(a * 20) * p
UnitLimb(j, a, p) == IF j = a + 1 THEN p ELSE 0

\* a tie goes to the even neighbour: up if the last kept bit is 1; an inexact
\* quotient on the tie lies above it
RoundAtLimb(m, inexact, a, p) ==
    RoundWith(m,
              <<LowLimb(m, 1, a, p), LowLimb(m, 2, a, p), LowLimb(m, 3, a, p),
                LowLimb(m, 4, a, p)>>,
              <<UnitLimb(1, a, p), UnitLimb(2, a, p), UnitLimb(3, a, p),
                UnitLimb(4, a, p)>>,
              inexact \/ (m[a + 1] \div p) % 2 = 1)

\* cut is the number of bits beyond the 53 significant ones
RoundAtCut(m, inexact, cut) ==
    IF cut <= 0 THEN m
    ELSE RoundAtLimb(m, inexact, cut \div LimbBits, Pow2(cut % LimbBits))

\* round to nearest, ties to even, at 53 significant bits; inexact says that
\* the exact value lies above m by less than 2^-60
RoundToNearestEven(m, inexact) ==
    RoundAtCut(m, inexact, MagBits(m) - SignificandBits)

\* a number of v whole units and a fraction of (upper * 2^20 + lower) * 2^-40
NumWithFraction(v, upper, lower) ==
    [k |-> "number", v |-> v, frac |-> <<upper, lower>>]

\* the double 5859.06976744186, one unit in the last place below the double
\* nearest to 19 * 780 * 510 / 1290 m, where the battery is used up exactly
LastDoubleBelowRange == NumWithFraction(5859, 73156, 487709)

DoubleOfInt(n) == [neg |-> n < 0, mag |-> MagOfInt(IF n < 0 THEN -n ELSE n)]

\* the distance argument as a double: whole metres and, if given, a fraction
\* in 2^-40 m written in two limbs, upper limb first
DoubleOfDistance(distance) ==
    [neg |-> distance.v < 0,
     mag |-> IF "frac" \in DOMAIN distance
             THEN <<0, distance.frac[2], distance.frac[1], distance.v>>
             ELSE MagOfInt(IF distance.v < 0 THEN -distance.v ELSE distance.v)]

\* the sign and the exact magnitude of x + y
SumNeg(x, y) ==
    IF x.neg = y.neg THEN x.neg
    ELSE IF MagLess(x.mag, y.mag) THEN y.neg
    ELSE x.neg /\ x.mag # y.mag

SumMag(x, y) ==
    IF x.neg = y.neg THEN MagAdd(x.mag, y.mag)
    ELSE IF MagLess(x.mag, y.mag) THEN MagSub(y.mag, x.mag)
    ELSE MagSub(x.mag, y.mag)

\* x + y
DAdd(x, y) ==
    [neg |-> SumNeg(x, y), mag |-> RoundToNearestEven(SumMag(x, y), FALSE)]

\* x - y
DSub(x, y) == DAdd(x, [y EXCEPT !.neg = ~y.neg])

\* k * x for a small whole k > 0
DTimes(k, x) == [neg |-> x.neg, mag |-> RoundToNearestEven(MagTimes(x.mag, k), FALSE)]

\* the rounded quotient of a division
RoundQuotient(d) == RoundToNearestEven(d.q, d.inexact)

\* x / n for a small whole n > 0
DDiv(x, n) == [neg |-> x.neg, mag |-> RoundQuotient(MagDiv(x.mag, n))]

\* x / (tenths / 10), the divisor given in tenths
DDivTenths(x, tenths) ==
    [neg |-> x.neg, mag |-> RoundQuotient(MagDiv(MagTimes(x.mag, 10), tenths))]

\* x < y
DLess(x, y) ==
    IF x.neg /\ ~y.neg THEN x.mag # MagZero \/ y.mag # MagZero
    ELSE IF ~x.neg /\ y.neg THEN FALSE
    ELSE IF x.neg THEN MagLess(y.mag, x.mag)
    ELSE MagLess(x.mag, y.mag)

\* distance / groundSpeedToDestinationInMetersPerSecond / 60
calculateCruisePhaseToDestination(distance) ==
    DDiv(DDiv(distance, groundSpeedToDestinationInMetersPerSecond), 60)

\* distance / groundSpeedToHomeInMetersPerSecond / 60
calculateCruisePhaseToHome(distance) ==
    DDiv(DDivTenths(distance, groundSpeedToHomeInTenths), 60)

calculateCurrentCapacityRequiredCruisePhaseToDestination(distance) ==
    DTimes(droneFlightCurrentCapacityConsumptionAtMaxSpeedInAhPerMinute,
           calculateCruisePhaseToDestination(distance))

calculateCurrentCapacityRequiredCruisePhaseHome(distance) ==
    DTimes(droneFlightCurrentCapacityConsumptionAtMaxSpeedInAhPerMinute,
           calculateCruisePhaseToHome(distance))

calculateCurrentCapacityRequiredTimeOnStation(distance) ==
    DSub(DoubleOfInt(practicalBatteryCapacityInAh),
         DAdd(DAdd(DAdd(DoubleOfInt(droneTakeOffCurrentCapacityConsumptionInAh),
                        calculateCurrentCapacityRequiredCruisePhaseToDestination(distance)),
                   calculateCurrentCapacityRequiredCruisePhaseHome(distance)),
              DoubleOfInt(droneLandingCurrentCapacityConsumptionInAh)))

\* capacity left on station / hover consumption per minute
calculateTimeOnStation(distance) ==
    DDiv(calculateCurrentCapacityRequiredTimeOnStation(distance),
         droneHoverCurrentCapacityConsumptionInAhPerMinute)

\* the keys of const checks, in insertion order
CheckNames ==
    <<"outboundCapacityCheck", "timeOnStationBatteryCheck", "returnCapacityCheck",
      "windAtCruiseAltCheck", "maxGustAtCruiseAltCheck", "outboundGroundSpeedCheck",
      "returnGroundSpeedCheck">>

\* check1, check2 and check3 of getFlightGoNoGo, for a distance > 0
CapacityChecks(distance) ==
    [outboundCapacityCheck |->
         DLess(calculateCurrentCapacityRequiredCruisePhaseToDestination(distance),
               DSub(DSub(DSub(DoubleOfInt(practicalBatteryCapacityInAh),
                              DoubleOfInt(droneTakeOffCurrentCapacityConsumptionInAh)),
                         calculateCurrentCapacityRequiredCruisePhaseHome(distance)),
                    DoubleOfInt(droneLandingCurrentCapacityConsumptionInAh))),
     timeOnStationBatteryCheck |->
         DLess(DoubleOfInt(0),
               calculateCurrentCapacityRequiredTimeOnStation(distance)),
     returnCapacityCheck |->
         DLess(calculateCurrentCapacityRequiredCruisePhaseHome(distance),
               DSub(DSub(DSub(DoubleOfInt(practicalBatteryCapacityInAh),
                              DoubleOfInt(droneTakeOffCurrentCapacityConsumptionInAh)),
                         calculateCurrentCapacityRequiredCruisePhaseToDestination(distance)),
                    DoubleOfInt(droneLandingCurrentCapacityConsumptionInAh)))]

\* the distances > 0 that getFlightGoNoGo is called with: route lengths in
\* whole metres and the double below the range limit
CalledDistances ==
    {Num(1000), Num(2000), Num(3000), Num(5000), Num(5859), LastDoubleBelowRange,
     Num(5860), Num(6000), Num(7000), Num(9000)}

\* check1, check2 and check3 read only the distance argument: their values
\* as a function of it
CapacityChecksAt ==
    [distance \in CalledDistances |-> CapacityChecks(DoubleOfDistance(distance))]

\* arithmetic on NaN or undefined gives NaN, and every comparison with NaN is
\* false
CapacityChecksOf(distance) ==
    IF distance.k = "number" THEN CapacityChecksAt[distance]
    ELSE [outboundCapacityCheck |-> FALSE, timeOnStationBatteryCheck |-> FALSE,
          returnCapacityCheck |-> FALSE]

\* const checks with the cruise times taken at the wind-derived ground speeds
\* of the same call instead of the nominal ones
ChecksAtWindGroundSpeed(a) ==
    LET distance == DoubleOfDistance(a.distance)
        tenths(groundSpeed) == IF groundSpeed < 100 THEN 1 ELSE groundSpeed \div 100
        out == DTimes(droneFlightCurrentCapacityConsumptionAtMaxSpeedInAhPerMinute,
                      DDiv(DDivTenths(distance,
                                      tenths(calculateGroundSpeedToIncident(a))), 60))
        home == DTimes(droneFlightCurrentCapacityConsumptionAtMaxSpeedInAhPerMinute,
                       DDiv(DDivTenths(distance,
                                       tenths(calculateGroundSpeedBackHome(a))), 60))
        reserve == DSub(DoubleOfInt(practicalBatteryCapacityInAh),
                        DoubleOfInt(droneTakeOffCurrentCapacityConsumptionInAh))
        landing == DoubleOfInt(droneLandingCurrentCapacityConsumptionInAh)
        avgwindSpeedatcruisealt ==
            calculateAverageWindSpeedAtDroneCruiseAltitudeInMetersPerSecond(a.windSpeed)
    IN  [outboundCapacityCheck |-> DLess(out, DSub(DSub(reserve, home), landing)),
         timeOnStationBatteryCheck |->
             DLess(DoubleOfInt(0),
                   DSub(DoubleOfInt(practicalBatteryCapacityInAh),
                        DAdd(DAdd(DAdd(DoubleOfInt(droneTakeOffCurrentCapacityConsumptionInAh),
                                       out), home), landing))),
         returnCapacityCheck |-> DLess(home, DSub(DSub(reserve, out), landing)),
         windAtCruiseAltCheck |->
             a.windSpeed.k = "number" /\ avgwindSpeedatcruisealt <= a.windSpeed.v,
         maxGustAtCruiseAltCheck |->
             calculateMaxWindGustSpeedAtDroneCruiseAltitudeInMetersPerSecond(a.gustSpeed)
                 < gustWindSpeedLimitInMetersPerSecond * Milli,
         outboundGroundSpeedCheck |-> calculateGroundSpeedToIncident(a) > 100,
         returnGroundSpeedCheck |-> calculateGroundSpeedBackHome(a) > 100]

\* const checks of getFlightGoNoGo, for a distance > 0
Checks(a) ==
    LET avgwindSpeedatcruisealt ==
            calculateAverageWindSpeedAtDroneCruiseAltitudeInMetersPerSecond(a.windSpeed)
    IN  [outboundCapacityCheck |->
             CapacityChecksOf(a.distance).outboundCapacityCheck,
         timeOnStationBatteryCheck |->
             CapacityChecksOf(a.distance).timeOnStationBatteryCheck,
         returnCapacityCheck |-> CapacityChecksOf(a.distance).returnCapacityCheck,
         windAtCruiseAltCheck |->
             a.windSpeed.k = "number" /\ avgwindSpeedatcruisealt <= a.windSpeed.v,
         maxGustAtCruiseAltCheck |->
             calculateMaxWindGustSpeedAtDroneCruiseAltitudeInMetersPerSecond(a.gustSpeed)
                 < gustWindSpeedLimitInMetersPerSecond * Milli,
         outboundGroundSpeedCheck |-> calculateGroundSpeedToIncident(a) > 100,
         returnGroundSpeedCheck |-> calculateGroundSpeedBackHome(a) > 100]

\* a noGoReason value: a string, an array of check names, or null
ReasonString(str) == [t |-> "string", s |-> str, a |-> <<>>]

ReasonArray(arr) == [t |-> "array", s |-> "", a |-> arr]

ReasonNull == [t |-> "null", s |-> "", a |-> <<>>]

\* Object.entries(checks).filter(([key, value]) => !value).map(([key]) => key),
\* with every check counted as passed
FailedNone(checks) == <<>>

\* Object.entries(checks).filter(([key, value]) => !value).map(([key]) => key)
Failed(checks) == SelectSeq(CheckNames, LAMBDA n : ~checks[n])

\* the guard as distance <= 0 alone: NaN and undefined compare false
NoDistanceByComparison(distance) ==
    \/ distance.k = "number" /\ distance.v <= 0
    \/ distance.k = "null"

\* if (!distance || distance <= 0)
NoDistance(distance) == distance.k # "number" \/ distance.v = 0 \/ distance.v <= 0

getFlightGoNoGo(a) ==
    IF NoDistance(a.distance)
    THEN [allOk |-> FALSE, noGoReason |-> ReasonString("no distance")]
    ELSE LET checks == Checks(a)
             failed == Failed(checks)
         IN  [allOk |-> Len(failed) = 0,
              outboundCapacityCheck |-> checks.outboundCapacityCheck,
              timeOnStationBatteryCheck |-> checks.timeOnStationBatteryCheck,
              returnCapacityCheck |-> checks.returnCapacityCheck,
              windAtCruiseAltCheck |-> checks.windAtCruiseAltCheck,
              maxGustAtCruiseAltCheck |-> checks.maxGustAtCruiseAltCheck,
              outboundGroundSpeedCheck |-> checks.outboundGroundSpeedCheck,
              returnGroundSpeedCheck |-> checks.returnGroundSpeedCheck,
              outboundGroundSpeed |-> calculateGroundSpeedToIncident(a),
              returnGroundSpeed |-> calculateGroundSpeedBackHome(a),
              noGoReason |-> IF Len(failed) > 0 THEN ReasonArray(failed)
                                                ELSE ReasonNull]

\* one call of getFlightGoNoGo
CallGoNoGo ==
    /\ "getFlightGoNoGo" \in flightArgs.calls \ called
    /\ verdict' = getFlightGoNoGo(flightArgs)
    /\ called' = called \cup {"getFlightGoNoGo"}
    /\ UNCHANGED <<flightArgs, toIncident, backHome, avgAtCruise, gustAtCruise,
                   notFlightVars>>

\* one call of calculateGroundSpeedToIncident
CallGroundSpeedToIncident ==
    /\ "calculateGroundSpeedToIncident" \in flightArgs.calls \ called
    /\ toIncident' = calculateGroundSpeedToIncident(flightArgs)
    /\ called' = called \cup {"calculateGroundSpeedToIncident"}
    /\ UNCHANGED <<flightArgs, verdict, backHome, avgAtCruise, gustAtCruise,
                   notFlightVars>>

\* one call of calculateGroundSpeedBackHome
CallGroundSpeedBackHome ==
    /\ "calculateGroundSpeedBackHome" \in flightArgs.calls \ called
    /\ backHome' = calculateGroundSpeedBackHome(flightArgs)
    /\ called' = called \cup {"calculateGroundSpeedBackHome"}
    /\ UNCHANGED <<flightArgs, verdict, toIncident, avgAtCruise, gustAtCruise,
                   notFlightVars>>

\* one call of each of the two wind-scaling functions
CallWindAtCruise ==
    /\ "windAtCruise" \in flightArgs.calls \ called
    /\ avgAtCruise' =
           calculateAverageWindSpeedAtDroneCruiseAltitudeInMetersPerSecond(
               flightArgs.windSpeed)
    /\ gustAtCruise' =
           calculateMaxWindGustSpeedAtDroneCruiseAltitudeInMetersPerSecond(
               flightArgs.gustSpeed)
    /\ called' = called \cup {"windAtCruise"}
    /\ UNCHANGED <<flightArgs, verdict, toIncident, backHome, notFlightVars>>

----------------------------------------------------------------------------
(* Flight inputs                                                           *)

\* distances in metres; 5859 m is the last whole distance the battery checks
\* pass
Distances ==
    {NaN, NullArg, UndefinedArg, Num(0), Num(-100), Num(1000), Num(5859),
     LastDoubleBelowRange, Num(5860), Num(9000)}

WindSpeeds == {NaN, Num(0), Num(5700), Num(12500), Num(13000), Num(-5700)}

GustSpeeds == {NaN, Num(8000), Num(19900), Num(20000)}

WindDirections == {NaN, Num(0), Num(30), Num(90), Num(180), Num(300)}

Origin == [lat |-> 0, lon |-> 0]

Destinations ==
    {Origin, [lat |-> 1, lon |-> 0], [lat |-> 0, lon |-> 1],
     [lat |-> -1, lon |-> 0], [lat |-> 0, lon |-> -1]}

\* the functions a caller uses together: the go/no-go evaluation, or the two
\* ground speeds with the wind at cruise altitude
CallSets ==
    {{"getFlightGoNoGo"},
     {"calculateGroundSpeedToIncident", "calculateGroundSpeedBackHome",
      "windAtCruise"}}

FlightIdle ==
    /\ flightArgs = [idle |-> TRUE, calls |-> {}]
    /\ called = {}
    /\ verdict = [pending |-> TRUE]
    /\ toIncident = 0
    /\ backHome = 0
    /\ avgAtCruise = 0
    /\ gustAtCruise = 0

----------------------------------------------------------------------------
(* fetchActiveGeozones (src/unnamed/part_004).  Times are in hours.        *)

\* const soonThresholdMs = 8 * 60 * 60 * 1000, in hours
soonThresholdMs == 8

\* const tooBig = 300_000_000_000, in units of 1e9 square metres
tooBig == 300

\* ids of the layers: ParentID / GlobalID values
Ids == {"A", "B", "GA", "GB"}

\* activeMap.get(id) of an id that was never set
NoEntry ==
    [activationStatus |-> "<undefined>", activationSource |-> "<undefined>",
     status |-> "<undefined>", startTime |-> [k |-> "absent", t |-> 0],
     endTime |-> [k |-> "absent", t |-> 0], permanent |-> "<undefined>"]

\* const isActive = start && end && now >= start && now <= end
WindowIsActive(startVal, endVal, t) ==
    LET s == parseDateSafe(startVal)
        e == parseDateSafe(endVal)
    IN  Truthy(s) /\ Truthy(e) /\ t >= s.t /\ t <= e.t

\* isSoon with the threshold left out: every future start counts
WindowIsSoonNoThreshold(startVal, t) ==
    LET s == parseDateSafe(startVal)
    IN  Truthy(s) /\ s.t > t

\* const isSoon = start && start > now && start <= now + soonThresholdMs
WindowIsSoon(startVal, t) ==
    LET s == parseDateSafe(startVal)
    IN  Truthy(s) /\ s.t > t /\ s.t <= t + soonThresholdMs

\* const isPermanent = p.permanent === '1' || p.permanent === true
IsPermanent(p) == p.permanent \in {"str:1", "bool:true"}

\* a parseDateSafe result stored as a property: null, or the time as a number
StoredDate(val) ==
    IF parseDateSafe(val).null THEN NoDate ELSE DateAt(parseDateSafe(val).t)

\* status: p.status || ''
StatusOrEmpty(v) == IF v = Absent THEN "" ELSE v

\* the entry activeMap.set(id, {...}) stores
Entry(isActive, source, status, startVal, endVal, permanent) ==
    [activationStatus |-> IF isActive THEN "active" ELSE "soon",
     activationSource |-> source,
     status |-> status,
     startTime |-> StoredDate(startVal),
     endTime |-> StoredDate(endVal),
     permanent |-> permanent]

\* body of for (const f of specificSet)
FetchSpecific ==
    /\ fpc = "specific"
    /\ fk <= Len(specificSet)
    /\ LET p == specificSet[fk]
           id == p.ParentID
           isActive == WindowIsActive(p.startTime, p.endTime, fetchNow)
           isSoon == WindowIsSoon(p.startTime, fetchNow)
       IN  IF id = "" \/ (~isActive /\ ~isSoon)
           THEN UNCHANGED <<activeMap, sourceMap>>
           ELSE /\ sourceMap' =
                       [sourceMap EXCEPT ![id].Specific =
                            [present |-> TRUE, startTime |-> p.startTime,
                             endTime |-> p.endTime]]
                /\ activeMap' =
                       [activeMap EXCEPT ![id] =
                            Entry(isActive, "Specific", StatusOrEmpty(p.status),
                                  p.startTime, p.endTime, "bool:false")]
    /\ fk' = fk + 1
    /\ UNCHANGED <<fetchNow, masterZones, specificSet, generalSet, conditionSet, fpc,
                   fetched, notFetchVars>>

\* the Specific loop ends, the General loop begins
FetchSpecificEnd ==
    /\ fpc = "specific"
    /\ fk > Len(specificSet)
    /\ fpc' = "general"
    /\ fk' = 1
    /\ UNCHANGED <<fetchNow, masterZones, specificSet, generalSet, conditionSet,
                   activeMap, sourceMap, fetched, notFetchVars>>

\* body of for (const f of generalSet)
FetchGeneral ==
    /\ fpc = "general"
    /\ fk <= Len(generalSet)
    /\ LET p == generalSet[fk]
           id == p.ParentID
           isPermanent == IsPermanent(p)
           isActive == isPermanent
                       \/ WindowIsActive(p.startDateTime, p.endDateTime, fetchNow)
           isSoon == WindowIsSoon(p.startDateTime, fetchNow)
       IN  IF id # "" /\ (isActive \/ isSoon)
           THEN /\ sourceMap' =
                       [sourceMap EXCEPT ![id].General =
                            [present |-> TRUE, startDateTime |-> p.startDateTime,
                             endDateTime |-> p.endDateTime,
                             permanent |-> p.permanent]]
                /\ activeMap' =
                       [activeMap EXCEPT ![id] =
                            Entry(isActive, "General", StatusOrEmpty(p.status),
                                  p.startDateTime, p.endDateTime,
                                  IF isPermanent THEN "bool:true" ELSE "bool:false")]
           ELSE UNCHANGED <<activeMap, sourceMap>>
    /\ fk' = fk + 1
    /\ UNCHANGED <<fetchNow, masterZones, specificSet, generalSet, conditionSet, fpc,
                   fetched, notFetchVars>>

\* the General loop ends, the Condition loop begins
FetchGeneralEnd ==
    /\ fpc = "general"
    /\ fk > Len(generalSet)
    /\ fpc' = "condition"
    /\ fk' = 1
    /\ UNCHANGED <<fetchNow, masterZones, specificSet, generalSet, conditionSet,
                   activeMap, sourceMap, fetched, notFetchVars>>

\* body of for (const f of conditionSet)
FetchCondition ==
    /\ fpc = "condition"
    /\ fk <= Len(conditionSet)
    /\ LET p == conditionSet[fk]
           id == p.GlobalID
       IN  IF id = ""
           THEN UNCHANGED <<activeMap, sourceMap>>
           ELSE /\ sourceMap' =
                       [sourceMap EXCEPT ![id].Condition =
                            [present |-> TRUE, activationdate |-> p.activationdate]]
                /\ activeMap' =
                       [activeMap EXCEPT ![id] =
                            Entry(TRUE, "Condition", p.condition_en,
                                  p.activationdate, NoDate, "bool:false")]
    /\ fk' = fk + 1
    /\ UNCHANGED <<fetchNow, masterZones, specificSet, generalSet, conditionSet, fpc,
                   fetched, notFetchVars>>

\* activeMap.has(id)
Has(map, id) == map[id] # NoEntry

\* the filter callback with the altitude and area tests left out
KeepsZoneInMapOnly(zone, map) == Has(map, zone.ParentID) \/ Has(map, zone.GlobalID)

\* the callback of masterZones.filter(...)
KeepsZone(zone, map) ==
    LET isInActivationMap == Has(map, zone.ParentID) \/ Has(map, zone.GlobalID)
        maxAltitude == IF zone.lowerAltitudeUnit = "ft" THEN 400 ELSE 122
        isAltitudeOk == zone.lowerLimit.k # "number" \/ zone.lowerLimit.v <= maxAltitude
        isRenderable == isAltitudeOk /\ zone.Shape__Area < tooBig
    IN  isInActivationMap /\ isRenderable

\* the callback of .map(...): the zone with its activation merged in
WithActivation(zone, map, sources) ==
    LET id == zone.ParentID
        gid == zone.GlobalID
        activation == IF Has(map, id) THEN map[id] ELSE map[gid]
        originalSources == IF sources[id] # NoSources THEN sources[id]
                                                      ELSE sources[gid]
    IN  [ParentID |-> id,
         GlobalID |-> gid,
         given |-> TRUE,
         active |-> Absent,
         activationStatus |-> activation.activationStatus,
         activationSource |-> activation.activationSource,
         status |-> activation.status,
         startTime |-> activation.startTime,
         endTime |-> activation.endTime,
         permanent |-> activation.permanent,
         activationSources |-> [kind |-> "object", value |-> originalSources]]

RECURSIVE FilterMap(_, _, _)
FilterMap(zs, map, sources) ==
    IF zs = <<>> THEN <<>>
    ELSE (IF KeepsZone(Head(zs), map)
          THEN <<WithActivation(Head(zs), map, sources)>>
          ELSE <<>>) \o FilterMap(Tail(zs), map, sources)

\* the Condition loop ends: masterZones.filter(...).map(...) and return
FetchReturn ==
    /\ fpc = "condition"
    /\ fk > Len(conditionSet)
    /\ fetched' = FilterMap(masterZones, activeMap, sourceMap)
    /\ fpc' = "done"
    /\ UNCHANGED <<fetchNow, masterZones, specificSet, generalSet, conditionSet,
                   activeMap, sourceMap, fk, notFetchVars>>

----------------------------------------------------------------------------
(* fetchActiveGeozones inputs: now is hour 10                              *)

ZoneA ==
    [ParentID |-> "A", GlobalID |-> "GA", lowerLimit |-> Num(0),
     lowerAltitudeUnit |-> "m", Shape__Area |-> 1]

\* a zone that starts above the 122 m ceiling
ZoneB ==
    [ParentID |-> "B", GlobalID |-> "GB", lowerLimit |-> Num(200),
     lowerAltitudeUnit |-> "m", Shape__Area |-> 1]

\* start/end pairs: active now, starting in 2 h, starting in exactly 8 h,
\* starting in 9 h, over, and without dates
Windows ==
    { <<DateAt(5), DateAt(30)>>, <<DateAt(12), DateAt(30)>>, <<DateAt(18), NoDate>>,
      <<DateAt(19), DateAt(30)>>, <<DateAt(2), DateAt(8)>>, <<NoDate, NoDate>> }

SpecificRecords ==
    {[ParentID |-> id, startTime |-> w[1], endTime |-> w[2], status |-> Absent] :
        id \in {"A", "B"}, w \in Windows}
    \cup {[ParentID |-> "", startTime |-> DateAt(12), endTime |-> DateAt(30),
           status |-> Absent]}

GeneralRecords ==
    {[ParentID |-> "A", startDateTime |-> w[1], endDateTime |-> w[2],
      permanent |-> perm, status |-> st] :
        w \in {<<DateAt(5), DateAt(30)>>, <<DateAt(12), DateAt(30)>>,
               <<DateAt(19), DateAt(30)>>},
        perm \in {Absent, "str:1"},
        st \in {Absent, "recurring"}}
    \cup {[ParentID |-> "", startDateTime |-> DateAt(12), endDateTime |-> NoDate,
           permanent |-> Absent, status |-> Absent]}

ConditionRecords ==
    {[GlobalID |-> id, activationdate |-> NoDate, condition_en |-> Absent] :
        id \in {"GA", "A", ""}}

\* the sequences over S of length at most n
RECURSIVE SeqsUpTo(_, _)
SeqsUpTo(S, n) ==
    IF n = 0 THEN {<<>>}
    ELSE LET shorter == SeqsUpTo(S, n - 1)
         IN  shorter \cup {Append(q, x) : q \in shorter, x \in S}

\* longest Specific layer
MaxSpecific == 2

FetchIdle ==
    /\ fetchNow = 0
    /\ masterZones = <<>>
    /\ specificSet = <<>>
    /\ generalSet = <<>>
    /\ conditionSet = <<>>
    /\ activeMap = [id \in Ids |-> NoEntry]
    /\ sourceMap = [id \in Ids |-> NoSources]
    /\ fk = 0
    /\ fpc = "idle"
    /\ fetched = <<>>

----------------------------------------------------------------------------
(* The App component (src/unnamed/part_001): zones cleared for one flight. *)
(* A zone is its id (getZoneId); lengths are in metres.                    *)

AppZoneIds == {"zone-1", "zone-2"}

\* a mission: the length of the direct route, the zones the direct route
\* crosses and the length one detour adds to the route
Scenes ==
    [direct : {1000, 5000}, crossing : SUBSET AppZoneIds, detour : {1000}]

RECURSIVE SeqOfSet(_)
SeqOfSet(S) ==
    IF S = {} THEN <<>>
    ELSE LET z == CHOOSE x \in S : \A y \in S : x = y \/ x = "zone-1"
         IN  <<z>> \o SeqOfSet(S \ {z})

\* setFlightPath([])
EmptyPath == [length |-> 0, meters |-> 0]

\* calculateAvoidingPath(startCoord, destCoord, features), with the direct
\* intersections added: the zones listed and the path around them
AvoidingRoute(sc, features) ==
    LET combined == features \cap sc.crossing
    IN  [combined |-> SeqOfSet(combined),
         path |-> [length |-> 2 + 2 * Cardinality(combined),
                   meters |-> sc.direct + sc.detour * Cardinality(combined)]]

\* const flightInfo = useMemo(...): null, or the go/no-go of the flight path
NoFlightInfo == [none |-> TRUE]

flightInfoOf(fp, sel) ==
    IF fp.length < 2 \/ ~sel THEN NoFlightInfo
    ELSE [flight |->
            getFlightGoNoGo([distance |-> Num(fp.meters), windSpeed |-> Num(0),
                             gustSpeed |-> Num(0), windFromDeg |-> Num(0),
                             src |-> Origin, dst |-> [lat |-> 0, lon |-> 1]])]

flightInfo == flightInfoOf(flightPath, selected)

\* <span>Flight is {flightInfo.flight.allOk ? 'GO' : 'NO GO'}</span>
StatusTextOf(info) ==
    IF info = NoFlightInfo THEN "none"
    ELSE IF info.flight.allOk THEN "Flight is GO" ELSE "Flight is NO GO"

StatusText == StatusTextOf(flightInfo)

\* the rows of the "No Fly Zones" list inside the flight info panel
NfzRows ==
    IF flightInfo = NoFlightInfo THEN <<>>
    ELSE [k \in 1..Len(routeNoFlyZones) |->
            [id |-> routeNoFlyZones[k], className |-> "nfz-item",
             texts |-> {}, buttons |-> {"Clear for this flight"}]]

\* zones.filter(z => getZoneId(z) !== id)
RECURSIVE WithoutZone(_, _)
WithoutZone(zs, id) ==
    IF zs = <<>> THEN <<>>
    ELSE IF Head(zs) = id THEN WithoutZone(Tail(zs), id)
    ELSE <<Head(zs)>> \o WithoutZone(Tail(zs), id)

\* const newCleared = [...clearedZoneIds, id]
ClearedAfter(cleared, id) == Append(cleared, id)

\* largest length of clearedZoneIds
MaxCleared == 2

\* onClick={() => handleClearZone(z)} on a listed row
handleClearZone(id) ==
    /\ \E k \in 1..Len(NfzRows) : NfzRows[k].id = id
    /\ Len(clearedZoneIds) < MaxCleared
    /\ countryFeatures' = countryFeatures \ {id}
    /\ clearedZoneIds' = ClearedAfter(clearedZoneIds, id)
    /\ IF selected /\ ~disableFocus /\ mapLoaded
       THEN LET r == AvoidingRoute(scene, countryFeatures \ {id})
            IN  /\ routeNoFlyZones' = r.combined
                /\ flightPath' = r.path
       ELSE /\ routeNoFlyZones' = WithoutZone(routeNoFlyZones, id)
            /\ UNCHANGED flightPath
    /\ UNCHANGED <<scene, selected, disableFocus, mapLoaded, countryVars,
                   plannerVars, classifierVars, flightVars, fetchVars, buildVars>>

\* focusDestination(dest) for another mission: the cleared ids are forgotten
focusDestination ==
    /\ \E sc \in Scenes :
        /\ sc # scene
        /\ scene' = sc
        /\ IF mapLoaded
           THEN LET r == AvoidingRoute(sc, countryFeatures)
                IN  /\ routeNoFlyZones' = r.combined
                    /\ flightPath' = r.path
           ELSE UNCHANGED <<routeNoFlyZones, flightPath>>
    /\ selected' = TRUE
    /\ clearedZoneIds' = <<>>
    /\ UNCHANGED <<countryFeatures, disableFocus, mapLoaded, countryVars,
                   plannerVars, classifierVars, flightVars, fetchVars, buildVars>>

\* the countries of the list and the zones each country's GeoJSON holds
CountryIds == {"1", "2"}

NoCountry == "null"

ZonesOfCountry(id) == IF id = "1" THEN {"zone-1"} ELSE {"zone-2"}

\* f.properties of the zones: zone-1 recurs until hour 1, zone-2 carries no
\* activation data; neither carries a lower limit
ZoneProps(z) ==
    IF z = "zone-1"
    THEN [NullProps EXCEPT !.given = TRUE, !.status = "recurring",
                           !.endTime = DateAt(1)]
    ELSE [NullProps EXCEPT !.given = TRUE]

\* the two filters of toggleCountry on the fetched features
LoadedZones(id, cleared, t) ==
    {z \in ZonesOfCountry(id) :
        isZoneActive(ZoneProps(z), t) = "true" /\ ~Contains(cleared, z)}

\* largest number of toggleCountry calls waiting at once
MaxPending == 2

\* largest value of Date.now()
MaxAppNow == 2

\* toggleCountry(id) up to its await: the layer of another selected country is
\* removed; a second click on the selected country removes it and returns
toggleCountry(id) ==
    /\ mapLoaded
    /\ IF selectedCountryId = id
       THEN /\ countrySources' = countrySources \ {id}
            /\ countryFeatures' = countryFeatures \ ZonesOfCountry(id)
            /\ selectedCountryId' = NoCountry
            /\ UNCHANGED pendingCountries
       ELSE /\ Cardinality(pendingCountries) < MaxPending
            /\ pendingCountries' =
                   pendingCountries \cup {[id |-> id, cleared |-> clearedZoneIds]}
            /\ IF selectedCountryId # NoCountry
               THEN /\ countrySources' = countrySources \ {selectedCountryId}
                    /\ countryFeatures' =
                           countryFeatures \ ZonesOfCountry(selectedCountryId)
                    /\ selectedCountryId' = NoCountry
               ELSE UNCHANGED <<countrySources, countryFeatures, selectedCountryId>>
    /\ UNCHANGED <<scene, routeNoFlyZones, clearedZoneIds, selected, flightPath,
                   disableFocus, mapLoaded, appNow, plannerVars, classifierVars,
                   flightVars, fetchVars, buildVars>>

\* toggleCountry after its await.  The fetch fails or its content does not
\* parse: the call ends.  Otherwise the features are filtered and stored; then
\* map.addSource throws when the source is already on the map, and the catch
\* block ends the call before setSelectedCountryId(id)
toggleCountryResume(call) ==
    /\ call \in pendingCountries
    /\ pendingCountries' = pendingCountries \ {call}
    /\ \E fetched_ok \in BOOLEAN :
         IF ~fetched_ok
         THEN UNCHANGED <<countryFeatures, countrySources, selectedCountryId>>
         ELSE /\ countryFeatures' =
                    (countryFeatures \ ZonesOfCountry(call.id))
                        \cup LoadedZones(call.id, call.cleared, appNow)
              /\ IF call.id \in countrySources
                 THEN UNCHANGED <<countrySources, selectedCountryId>>
                 ELSE /\ countrySources' = countrySources \cup {call.id}
                      /\ selectedCountryId' = call.id
    /\ UNCHANGED <<scene, routeNoFlyZones, clearedZoneIds, selected, flightPath,
                   disableFocus, mapLoaded, appNow, plannerVars, classifierVars,
                   flightVars, fetchVars, buildVars>>

\* time passes
Tick ==
    /\ appNow < MaxAppNow
    /\ appNow' = appNow + 1
    /\ UNCHANGED <<scene, countryFeatures, routeNoFlyZones, clearedZoneIds, selected,
                   flightPath, disableFocus, mapLoaded, selectedCountryId,
                   countrySources, pendingCountries, plannerVars, classifierVars,
                   flightVars, fetchVars, buildVars>>

AppIdle ==
    /\ scene = [direct |-> 0, crossing |-> {}, detour |-> 0]
    /\ countryFeatures = {}
    /\ routeNoFlyZones = <<>>
    /\ clearedZoneIds = <<>>
    /\ selected = FALSE
    /\ flightPath = EmptyPath
    /\ disableFocus = FALSE
    /\ mapLoaded = FALSE
    /\ selectedCountryId = NoCountry
    /\ countrySources = {}
    /\ pendingCountries = {}
    /\ appNow = 0

----------------------------------------------------------------------------
(* buildPath (src/src/pathfinding.js), one loop turn a step                *)

\* cap on res.length: the array cannot grow past it
MaxRes == 8

triangle == << <<0, 0>>, <<0, 100>>, <<100, 0>>, <<0, 0>> >>

BuildRings == {triangle, square(0, 0)}

\* while (idx !== endIdx) { idx = (idx + direction + len) % len; res.push(ring[idx]) }
BuildTurn ==
    /\ bPc = "loop"
    /\ bIdx # buildArgs.endIdx
    /\ Len(bRes) < MaxRes
    /\ LET len == Len(buildArgs.ring) - 1
           next == (bIdx + buildArgs.direction + len) % len
       IN  /\ bIdx' = next
           /\ bRes' = Append(bRes, buildArgs.ring[next + 1])
    /\ UNCHANGED <<buildArgs, bPc, plannerVars, classifierVars, flightVars,
                   fetchVars, appVars>>

\* the loop still runs with the array at its cap: the call ends without returning
BuildOverflow ==
    /\ bPc = "loop"
    /\ bIdx # buildArgs.endIdx
    /\ Len(bRes) >= MaxRes
    /\ bPc' = "overflow"
    /\ UNCHANGED <<buildArgs, bIdx, bRes, plannerVars, classifierVars, flightVars,
                   fetchVars, appVars>>

\* return res
BuildReturn ==
    /\ bPc = "loop"
    /\ bIdx = buildArgs.endIdx
    /\ bPc' = "done"
    /\ UNCHANGED <<buildArgs, bIdx, bRes, plannerVars, classifierVars, flightVars,
                   fetchVars, appVars>>

BuildIdle ==
    /\ buildArgs = [ring |-> <<>>, startIdx |-> 0, endIdx |-> 0, direction |-> 1]
    /\ bIdx = 0
    /\ bRes = <<>>
    /\ bPc = "idle"

ExtraIdle == FlightIdle /\ FetchIdle /\ AppIdle /\ BuildIdle

PlannerIdle ==
    /\ start = <<0, 0>>
    /\ dest = <<0, 0>>
    /\ zones = <<>>
    /\ budget = 0
    /\ intersectOrder = "ring"
    /\ path = <<>>
    /\ iter = 0
    /\ changed = FALSE
    /\ zi = 0
    /\ part = 0
    /\ i = 0
    /\ intersected = <<>>
    /\ pc = "idle"

ClassifierInit ==
    /\ props \in PropBags
    /\ now \in 0..MaxNow
    /\ active = "pending"
    /\ PlannerIdle
    /\ ExtraIdle

ClassifierNext == Classify

ClassifierSpec == ClassifierInit /\ [][ClassifierNext]_vars

ClassifierIdle ==
    /\ props = NullProps
    /\ now = 0
    /\ active = "idle"

\* let path = [start, dest]; let iter = 0
Init ==
    /\ \E r \in Routes : start = r[1] /\ dest = r[2]
    /\ zones \in ZoneLists
    /\ budget \in Budgets
    /\ intersectOrder \in IntersectOrders
    /\ path = <<start, dest>>
    /\ iter = 0
    /\ changed = FALSE
    /\ zi = 0
    /\ part = 0
    /\ i = 0
    /\ intersected = <<>>
    /\ pc = "pass"
    /\ ClassifierIdle
    /\ ExtraIdle

Next ==
    \/ PassBegin
    \/ PassLimit
    \/ PolyBegin
    \/ ScanDetour
    \/ ScanOverflow
    \/ ScanAdvance
    \/ ScanEnd
    \/ PassBreak
    \/ PassRepeat

Spec == Init /\ [][Next]_vars

FlightInit ==
    /\ \E distance \in Distances, windSpeed \in WindSpeeds, gustSpeed \in GustSpeeds,
          windFromDeg \in WindDirections, dst \in Destinations, calls \in CallSets :
           flightArgs = [distance |-> distance, windSpeed |-> windSpeed,
                         gustSpeed |-> gustSpeed, windFromDeg |-> windFromDeg,
                         src |-> Origin, dst |-> dst, calls |-> calls]
    /\ called = {}
    /\ verdict = [pending |-> TRUE]
    /\ toIncident = 0
    /\ backHome = 0
    /\ avgAtCruise = 0
    /\ gustAtCruise = 0
    /\ PlannerIdle
    /\ ClassifierIdle
    /\ FetchIdle
    /\ AppIdle
    /\ BuildIdle

FlightNext ==
    \/ CallGoNoGo
    \/ CallGroundSpeedToIncident
    \/ CallGroundSpeedBackHome
    \/ CallWindAtCruise

FlightSpec == FlightInit /\ [][FlightNext]_vars

FetchInit ==
    /\ fetchNow = 10
    /\ masterZones = <<ZoneA, ZoneB>>
    /\ specificSet \in SeqsUpTo(SpecificRecords, MaxSpecific)
    /\ generalSet \in SeqsUpTo(GeneralRecords, 1)
    /\ conditionSet \in SeqsUpTo(ConditionRecords, 1)
    /\ activeMap = [id \in Ids |-> NoEntry]
    /\ sourceMap = [id \in Ids |-> NoSources]
    /\ fk = 1
    /\ fpc = "specific"
    /\ fetched = <<>>
    /\ PlannerIdle
    /\ ClassifierIdle
    /\ FlightIdle
    /\ AppIdle
    /\ BuildIdle

FetchNext ==
    \/ FetchSpecific
    \/ FetchSpecificEnd
    \/ FetchGeneral
    \/ FetchGeneralEnd
    \/ FetchCondition
    \/ FetchReturn

FetchSpec == FetchInit /\ [][FetchNext]_vars

\* the App mounted from its props, with or without a mission selected
AppInit ==
    /\ scene \in Scenes
    /\ appNow = 0
    /\ mapLoaded \in BOOLEAN
    /\ selectedCountryId \in
           IF mapLoaded THEN CountryIds \cup {NoCountry} ELSE {NoCountry}
    /\ countrySources = CountryIds \cap {selectedCountryId}
    /\ pendingCountries = {}
    /\ countryFeatures \in
           IF ~mapLoaded THEN SUBSET AppZoneIds   \* the prop initialCountryFeatures
           ELSE IF selectedCountryId = NoCountry THEN {{}}
           ELSE {LoadedZones(selectedCountryId, <<>>, 0)}
    /\ selected \in BOOLEAN
    /\ disableFocus \in BOOLEAN
    /\ routeNoFlyZones =
           IF selected THEN AvoidingRoute(scene, countryFeatures).combined ELSE <<>>
    /\ flightPath =
           IF selected THEN AvoidingRoute(scene, countryFeatures).path ELSE EmptyPath
    /\ clearedZoneIds = <<>>
    /\ PlannerIdle
    /\ ClassifierIdle
    /\ FlightIdle
    /\ FetchIdle
    /\ BuildIdle

AppNext ==
    \/ \E id \in AppZoneIds : handleClearZone(id)
    \/ focusDestination
    \/ \E id \in CountryIds : toggleCountry(id)
    \/ \E call \in pendingCountries : toggleCountryResume(call)
    \/ Tick

AppSpec == AppInit /\ [][AppNext]_vars

\* const res = []; let idx = startIdx
BuildInit ==
    /\ \E ring \in BuildRings, d \in {1, -1} :
         \E s \in 0..(Len(ring) - 1), e \in 0..(Len(ring) - 1) :
             buildArgs = [ring |-> ring, startIdx |-> s, endIdx |-> e, direction |-> d]
    /\ bIdx = buildArgs.startIdx
    /\ bRes = <<>>
    /\ bPc = "loop"
    /\ PlannerIdle
    /\ ClassifierIdle
    /\ FlightIdle
    /\ FetchIdle
    /\ AppIdle

BuildNext ==
    \/ BuildTurn
    \/ BuildOverflow
    \/ BuildReturn

BuildSpec == BuildInit /\ [][BuildNext]_vars

----------------------------------------------------------------------------
(* Exact plane geometry used to state the planner claims                   *)

Cross(o, a, b) == (a[1] - o[1]) * (b[2] - o[2]) - (a[2] - o[2]) * (b[1] - o[1])

Sgn(n) == IF n > 0 THEN 1 ELSE IF n < 0 THEN -1 ELSE 0

Between(u, v, w) == (u <= v /\ v <= w) \/ (w <= v /\ v <= u)

OnSegment(p, a, b) ==
    Cross(a, b, p) = 0 /\ Between(a[1], p[1], b[1]) /\ Between(a[2], p[2], b[2])

SegmentsMeet(a, b, c, d) ==
    \/ /\ Sgn(Cross(c, d, a)) * Sgn(Cross(c, d, b)) < 0
       /\ Sgn(Cross(a, b, c)) * Sgn(Cross(a, b, d)) < 0
    \/ OnSegment(a, c, d) \/ OnSegment(b, c, d)
    \/ OnSegment(c, a, b) \/ OnSegment(d, a, b)

\* p lies in the closed convex polygon bounded by ring
InConvex(p, ring) ==
    \/ \A k \in 1..(Len(ring) - 1) : Cross(ring[k], ring[k + 1], p) >= 0
    \/ \A k \in 1..(Len(ring) - 1) : Cross(ring[k], ring[k + 1], p) <= 0

SegmentMeetsRing(a, b, ring) ==
    \/ InConvex(a, ring)
    \/ InConvex(b, ring)
    \/ \E k \in 1..(Len(ring) - 1) : SegmentsMeet(a, b, ring[k], ring[k + 1])

\* the parts of zone z that the direct segment start-dest meets
PartsMet(z) == {r \in 1..Len(z.parts) : SegmentMeetsRing(start, dest, z.parts[r])}

EndpointsOutside(z) ==
    \A r \in 1..Len(z.parts) : ~InConvex(start, z.parts[r]) /\ ~InConvex(dest, z.parts[r])

InPlanner == pc \in {"pass", "zone", "scan", "done", "overflow"}

\* The scan stands on a segment whose detour ends at the segment's own first
\* point: the splice leaves [a, b, ...] in front of the scan again, so the
\* while loop repeats the same step for ever.
ScanStuck ==
    /\ pc = "scan"
    /\ i < Len(path) - 1
    /\ Len(CurrentInts) >= 2
    /\ LET detour == Detour(CurrentInts, CurrentRing)
       IN  detour[Len(detour)] = path[i + 1]

----------------------------------------------------------------------------
(* Planner claims                                                          *)

\* C1: calculateAvoidingPath terminates and returns a result for every start,
\* destination and zone list: the pass loop runs at most maxIterations passes,
\* the segment scan never stays on the same segment for ever, and the path
\* array never outgrows its cap.
C1_PlannerTerminates ==
    InPlanner => iter <= maxIterations /\ ~ScanStuck /\ pc # "overflow"

\* C2: when no zone meets the direct segment start-dest, the planner returns
\* path = [start, dest] and an empty intersected list (the path is never
\* changed on the way there).
C2_ClearRouteStaysStraight ==
    (InPlanner /\ \A k \in 1..Len(zones) : PartsMet(zones[k]) = {})
        => /\ path = <<start, dest>>
           /\ intersected = <<>>
           /\ pc # "overflow"

C2_Witness ==
    /\ pc = "done"
    /\ Len(zones) = 2
    /\ \A k \in 1..Len(zones) : PartsMet(zones[k]) = {}
    /\ path = <<start, dest>>
    /\ intersected = <<>>

\* C3: when the direct segment crosses exactly one convex zone polygon (a
\* Polygon, or one part of a MultiPolygon) with start and dest outside it, the
\* returned path has more than 2 points and pathIntersectsZone(path, zone) is
\* false.
C3_SingleZoneDetourAvoidsZone ==
    (/\ pc = "done"
     /\ Len(zones) = 1
     /\ Cardinality(PartsMet(zones[1])) = 1
     /\ EndpointsOutside(zones[1]))
        => Len(path) > 2 /\ ~pathIntersectsZone(path, zones[1])

SharedEdge(r1, r2) ==
    \E j \in 1..(Len(r1) - 1), k \in 1..(Len(r2) - 1) :
        {r1[j], r1[j + 1]} = {r2[k], r2[k + 1]}

\* two single-polygon zones with a common boundary edge, both crossed by the
\* direct segment, start and dest outside both
AdjacentCrossing ==
    /\ InPlanner
    /\ Len(zones) = 2
    /\ \A k \in 1..2 : Len(zones[k].parts) = 1 /\ PartsMet(zones[k]) # {}
                       /\ EndpointsOutside(zones[k])
    /\ SharedEdge(zones[1].parts[1], zones[2].parts[1])

\* C4: for two zones sharing a boundary edge, both crossed by the direct path,
\* the planner returns a path that intersects neither zone, in either listing
\* order: the scan does not hang and the returned path is clear of both.
C4_AdjacentZonesAvoided ==
    AdjacentCrossing
        => /\ ~ScanStuck
           /\ pc # "overflow"
           /\ pc = "done" => /\ ~pathIntersectsZone(path, zones[1])
                             /\ ~pathIntersectsZone(path, zones[2])

\* C5: called with an iteration budget of 0, the planner returns
\* path = [start, dest] whatever the zones.
C5_ZeroBudgetStraightPath ==
    (pc = "done" /\ budget = 0) => path = <<start, dest>>

\* C6: at every point of calculateAvoidingPath (after each splice and on
\* return) the path has at least 2 points, starts at start and ends at dest.
C6_PathKeepsEndpoints ==
    InPlanner => /\ Len(path) >= 2
                 /\ path[1] = start
                 /\ path[Len(path)] = dest

C6_Witness ==
    /\ pc = "scan"
    /\ changed
    /\ Len(path) > 2
    /\ path[1] = start
    /\ path[Len(path)] = dest

----------------------------------------------------------------------------
(* Classifier claims                                                       *)

Classified == active \in {"true", "false", "TypeError"}

\* no rule before the activationSources stage decides
ReachesSourcesStage(p) ==
    /\ p.given
    /\ activationStatusRule(p) = "next"
    /\ p.active \notin {"bool:true", "bool:false"}
    /\ ~(IsString(p.status) /\ ToLowerCase(p.status) = "recurring")

\* C7: isZoneActive returns false for every property bag whose activationStatus
\* is the string "inactive", whatever the other fields hold.
C7_InactiveStatusWins ==
    (Classified /\ props.given /\ props.activationStatus = "inactive")
        => active = "false"

C7_Witness ==
    /\ active = "false"
    /\ props.activationStatus = "inactive"
    /\ props.active = "bool:true"
    /\ props.permanent = "bool:true"
    /\ props.activationSources.kind = "json"
    /\ props.activationSources.value.General.permanent = "bool:true"

\* a bound that is missing or unparsable leaves the window open on that side
WithinWindow(startVal, endVal, t) ==
    /\ startVal.k # "date" \/ t >= startVal.t
    /\ endVal.k # "date" \/ t <= endVal.t

SpecificSaysActive(src, t) ==
    src.present /\ WithinWindow(src.startTime, src.endTime, t)

GeneralSaysActive(src, t) ==
    /\ src.present
    /\ \/ src.permanent \in {"bool:true", "str:1"}
       \/ WithinWindow(src.startDateTime, src.endDateTime, t)

ConditionSaysActive(src, t) ==
    src.present /\ (src.activationdate.k # "date" \/ t >= src.activationdate.t)

\* C8: when no earlier rule applies and activationSources is present (naming
\* at least one source), isZoneActive returns true exactly when at least one source that is present
\* is active by its own rule; a zone whose only source is a non-permanent
\* General window that does not contain now is inactive.
C8_ActiveIffSomeSourceActive ==
    (/\ Classified
     /\ ReachesSourcesStage(props)
     /\ props.activationSources.kind \in {"json", "object"}
     /\ \/ props.activationSources.value.Specific.present
        \/ props.activationSources.value.General.present
        \/ props.activationSources.value.Condition.present)
        => LET src == props.activationSources.value
           IN  (active = "true") <=> \/ SpecificSaysActive(src.Specific, now)
                                     \/ GeneralSaysActive(src.General, now)
                                     \/ ConditionSaysActive(src.Condition, now)

\* C9: when the activationSources stage is reached and the General source has
\* permanent equal to true or '1', isZoneActive returns true for every now and
\* every start/end date in any source.
C9_PermanentGeneralIsActive ==
    (/\ Classified
     /\ ReachesSourcesStage(props)
     /\ props.activationSources.kind \in {"json", "object"}
     /\ props.activationSources.value.General.present
     /\ props.activationSources.value.General.permanent \in {"bool:true", "str:1"})
        => active = "true"

C9_Witness ==
    /\ active = "true"
    /\ ReachesSourcesStage(props)
    /\ props.activationSources.kind = "json"
    /\ now = 1
    /\ props.activationSources.value.Specific =
           [present |-> TRUE, startTime |-> DateAt(4), endTime |-> NoDate]
    /\ props.activationSources.value.General =
           [present |-> TRUE, startDateTime |-> DateAt(4), endDateTime |-> NoDate,
            permanent |-> "str:1"]
    /\ props.activationSources.value.Condition =
           [present |-> TRUE, activationdate |-> DateAt(4)]

\* C10: isZoneActive never throws; when activationSources is absent, or is a
\* string that is not valid JSON, and no earlier rule applied, it returns true.
C10_NeverThrowsFailOpen ==
    Classified
        => /\ active # "TypeError"
           /\ (ReachesSourcesStage(props)
               /\ props.activationSources.kind \in {"absent", "badjson"})
                  => active = "true"

----------------------------------------------------------------------------
(* Flight claims                                                           *)

Returned(f) == f \in called

\* C11: getFlightGoNoGo called with a distance that is 0, negative or falsy
\* (NaN, null, undefined) returns exactly {allOk: false, noGoReason: 'no
\* distance'}, with none of the seven checks and no ground speed in the
\* result, whatever the wind and coordinate arguments.
C11_NoDistanceShortCircuits ==
    (/\ Returned("getFlightGoNoGo")
     /\ \/ flightArgs.distance.k \in {"NaN", "null", "undefined"}
        \/ flightArgs.distance.v <= 0)
        => /\ DOMAIN verdict = {"allOk", "noGoReason"}
           /\ verdict.allOk = FALSE
           /\ verdict.noGoReason.t = "string"
           /\ verdict.noGoReason.s = "no distance"

C11_Witness ==
    /\ Returned("getFlightGoNoGo")
    /\ flightArgs.distance = NaN
    /\ flightArgs.windSpeed = Num(5700)
    /\ flightArgs.gustSpeed = Num(8000)
    /\ DOMAIN verdict = {"allOk", "noGoReason"}

PositionOfCheck(n) == CHOOSE k \in 1..Len(CheckNames) : CheckNames[k] = n

\* C12: for distance > 0, allOk is true iff all seven named checks of the
\* result are true; noGoReason is null when allOk is true and otherwise the
\* list of the names of exactly the false checks, in check order.
C12_AllOkIsConjunctionOfChecks ==
    (/\ Returned("getFlightGoNoGo")
     /\ flightArgs.distance.k = "number"
     /\ flightArgs.distance.v > 0)
        => LET names == {CheckNames[k] : k \in 1..Len(CheckNames)}
               reason == verdict.noGoReason
           IN  /\ names \subseteq DOMAIN verdict
               /\ verdict.allOk <=> \A n \in names : verdict[n]
               /\ verdict.allOk => reason.t = "null"
               /\ ~verdict.allOk =>
                      /\ reason.t = "array"
                      /\ {reason.a[k] : k \in 1..Len(reason.a)}
                             = {n \in names : ~verdict[n]}
                      /\ \A j, k \in 1..Len(reason.a) :
                             j < k => PositionOfCheck(reason.a[j])
                                          < PositionOfCheck(reason.a[k])

C12_Witness ==
    /\ Returned("getFlightGoNoGo")
    /\ flightArgs.distance = Num(5860)
    /\ ~verdict.allOk
    /\ verdict.noGoReason.t = "array"
    /\ verdict.noGoReason.a = <<"outboundCapacityCheck", "timeOnStationBatteryCheck",
                               "returnCapacityCheck">>
    /\ verdict.windAtCruiseAltCheck
    /\ verdict.outboundGroundSpeedCheck

\* a ground speed in thousandths that is a multiple of 0.5 or exactly 0.01,
\* not 0 and at most the fleet cap of 13 m/s
ReportableGroundSpeed(v) ==
    /\ v % 500 = 0 \/ v = 10
    /\ v # 0
    /\ v <= 13000

\* C13: for every input, calculateGroundSpeedToIncident and
\* calculateGroundSpeedBackHome return a multiple of 0.5 or exactly 0.01,
\* never 0, and never more than the fleet ground-speed cap of 13 m/s.
C13_GroundSpeedRoundedNonZeroCapped ==
    /\ Returned("calculateGroundSpeedToIncident") => ReportableGroundSpeed(toIncident)
    /\ Returned("calculateGroundSpeedBackHome") => ReportableGroundSpeed(backHome)

C13_Witness ==
    /\ Returned("calculateGroundSpeedToIncident")
    /\ Returned("calculateGroundSpeedBackHome")
    /\ toIncident = 13000
    /\ backHome % 1000 = 500
    /\ flightArgs.windSpeed.k = "number"
    /\ flightArgs.windSpeed.v > 0

\* C14: the wind speed (average and gust) at cruise altitude is the measured
\* speed times (cruise altitude / anemometer height) to the Hellman exponent;
\* with the constants of utils.js (90 m, 90 m, 0.25) the ratio is 1, so the
\* scaled value equals the measured value for every input, non-integer wind
\* speeds included.
C14_WindAtCruiseEqualsMeasured ==
    Returned("windAtCruise")
        => /\ flightArgs.windSpeed.k = "number"
                  => avgAtCruise = flightArgs.windSpeed.v
           /\ flightArgs.gustSpeed.k = "number"
                  => gustAtCruise = flightArgs.gustSpeed.v

----------------------------------------------------------------------------
(* fetchActiveGeozones claims                                              *)

\* the Specific, General and Condition records in processing order, each as
\* [id, start, activeNow]: the id it is filed under, its start time and
\* whether the record itself makes the zone active now
SpecificView(k) ==
    LET p == specificSet[k]
    IN  [id |-> p.ParentID, start |-> p.startTime,
         activeNow |-> /\ p.startTime.k = "date" /\ p.endTime.k = "date"
                       /\ p.startTime.t <= fetchNow /\ fetchNow <= p.endTime.t]

GeneralView(k) ==
    LET p == generalSet[k]
    IN  [id |-> p.ParentID, start |-> p.startDateTime,
         activeNow |-> \/ p.permanent \in {"str:1", "bool:true"}
                       \/ /\ p.startDateTime.k = "date" /\ p.endDateTime.k = "date"
                          /\ p.startDateTime.t <= fetchNow
                          /\ fetchNow <= p.endDateTime.t]

ConditionView(k) ==
    [id |-> conditionSet[k].GlobalID, start |-> NoDate, activeNow |-> TRUE]

RecordViews ==
    [k \in 1..Len(specificSet) |-> SpecificView(k)]
        \o [k \in 1..Len(generalSet) |-> GeneralView(k)]
        \o [k \in 1..Len(conditionSet) |-> ConditionView(k)]

TimedRecord(k) == k <= Len(specificSet) + Len(generalSet)

\* record k starts later than now and at most 8 hours after now, and is not
\* active now
StartsSoon(k) ==
    LET r == RecordViews[k]
    IN  /\ TimedRecord(k)
        /\ ~r.activeNow
        /\ r.start.k = "date"
        /\ r.start.t > fetchNow
        /\ r.start.t <= fetchNow + 8

\* record k is not active now and starts more than 8 hours after now
StartsLater(k) ==
    LET r == RecordViews[k]
    IN  /\ TimedRecord(k)
        /\ ~r.activeNow
        /\ r.start.k = "date"
        /\ r.start.t > fetchNow + 8

\* positions of the records filed under id
RecordsOf(id) == {k \in 1..Len(RecordViews) : RecordViews[k].id = id}

InResult(z) == \E k \in 1..Len(fetched) : fetched[k].ParentID = z.ParentID

StatusInResult(z) ==
    LET k == CHOOSE j \in 1..Len(fetched) : fetched[j].ParentID = z.ParentID
    IN  fetched[k].activationStatus

MasterZoneSet == {masterZones[k] : k \in 1..Len(masterZones)}

\* a zone whose records are all starting later than the lookahead is not
\* brought into the result by them
LaterRecordsLeaveZoneOut(z) ==
    (/\ RecordsOf(z.ParentID) # {}
     /\ \A k \in RecordsOf(z.ParentID) : StartsLater(k)
     /\ RecordsOf(z.GlobalID) = {})
        => ~InResult(z)

SetMax(S) == CHOOSE m \in S : \A n \in S : n <= m

\* the zone passes the altitude and area filter of the result
PassesRenderFilter(z) ==
    /\ \/ z.lowerLimit.k # "number"
       \/ z.lowerLimit.v <= (IF z.lowerAltitudeUnit = "ft" THEN 400 ELSE 122)
    /\ z.Shape__Area < 300

----------------------------------------------------------------------------
(* Recurring zones                                                         *)

\* C18: for a property bag whose status is "recurring" (any letter case) and
\* for which no earlier rule applies, isZoneActive returns true when the
\* permanent flag is truthy (true or '1') even if now lies outside
\* [startTime, endTime]; otherwise it returns true exactly when now lies
\* within [startTime, endTime], a missing or unparsable bound being open.
\* Stated for bounds other than the epoch itself, whose getTime() is 0.
C18_RecurringPermanentOrWindow ==
    (/\ Classified
     /\ props.given
     /\ activationStatusRule(props) = "next"
     /\ props.active \notin {"bool:true", "bool:false"}
     /\ props.status \in {"recurring", "Recurring", "RECURRING"}
     /\ props.startTime # DateAt(0)
     /\ props.endTime # DateAt(0))
        => (active = "true")
               <=> \/ props.permanent \in {"bool:true", "str:1"}
                   \/ WithinWindow(props.startTime, props.endTime, now)

----------------------------------------------------------------------------
(* Entry, exit and the two boundary walks                                  *)

\* the scan stands on a segment that is about to be detoured
DetourDue == pc = "scan" /\ i < Len(path) - 1 /\ Len(CurrentInts) >= 2

\* C19: for a segment (a, b) with at least 2 intersection points with a
\* polygon, the planner uses as entry the intersection point nearest to a and
\* as exit the one farthest from a, whatever order the intersection routine
\* returns the points in.
C19_EntryNearestExitFarthest ==
    DetourDue
        => LET a == path[i + 1]
               ints == CurrentInts
               p1 == ints[1]
               p2 == ints[Len(ints)]
           IN  \A k \in 1..Len(ints) :
                   /\ Dist2(a, p1) <= Dist2(a, ints[k])
                   /\ Dist2(a, ints[k]) <= Dist2(a, p2)

\* ring vertices s+1, ..., e in increasing index order (JS indices, modulo n)
UpWalk(ring, s, e) ==
    LET n == Len(ring) - 1
    IN  [k \in 1..((e - s + n) % n) |-> ring[((s + k) % n) + 1]]

\* ring vertices s, s-1, ..., e+1 in decreasing index order
DownWalk(ring, s, e) ==
    LET n == Len(ring) - 1
    IN  [k \in 1..((s - e + n) % n) |-> ring[((s - k + 1 + n) % n) + 1]]

\* C20: for an entry on ring edge sIdx and an exit on ring edge eIdx, sIdx
\* different from eIdx, the two candidate detours are the complementary
\* boundary walks from entry to exit: one visits ring vertices sIdx+1, ...,
\* eIdx in increasing index order, the other visits sIdx, sIdx-1, ..., eIdx+1
\* in decreasing order, so that together they visit every ring vertex once.
C20_CandidatesAreComplementaryWalks ==
    DetourDue
        => LET ring == CurrentRing
               sIdx == findSegmentIndex(ring, CurrentInts[1])
               eIdx == findSegmentIndex(ring, CurrentInts[Len(CurrentInts)])
           IN  sIdx # eIdx
                   => /\ buildPath(ring, sIdx, eIdx, 1) = UpWalk(ring, sIdx, eIdx)
                      /\ buildPath(ring, sIdx, eIdx, -1) = DownWalk(ring, sIdx, eIdx)

----------------------------------------------------------------------------
(* Planner claims on the splice and the returned list                      *)

\* the two candidates of the detour due in the current state
CandidateOf(direction) ==
    LET ring == CurrentRing
        p1 == CurrentInts[1]
        p2 == CurrentInts[Len(CurrentInts)]
        sIdx == findSegmentIndex(ring, p1)
        eIdx == findSegmentIndex(ring, p2)
    IN  NudgeAll(<<p1>> \o buildPath(ring, sIdx, eIdx, direction) \o <<p2>>,
                 centroid(ring))

\* the step that splices a detour into the path
SpliceStep == DetourDue /\ path' # path

\* C21: when a segment (a, b) is detoured, the planner splices in the
\* candidate (clockwise or counter-clockwise) whose total length entry +
\* detour vertices + exit is the smaller of the two, replacing the segment by
\* a, chosen detour, b and leaving every other element of the path unchanged
\* and in the same order.
C21_ShorterCandidateSpliced ==
    [][SpliceStep =>
         \E direction \in {1, -1} :
             LET chosen == CandidateOf(direction)
             IN  /\ length(chosen) <= length(CandidateOf(1))
                 /\ length(chosen) <= length(CandidateOf(-1))
                 /\ path' = SubSeq(path, 1, i + 1) \o chosen
                              \o SubSeq(path, i + 2, Len(path))]_vars

\* a detour was spliced in front of the destination and the scan stands on
\* its last point
C21_Witness ==
    /\ pc = "scan"
    /\ changed
    /\ i >= 2
    /\ Len(path) = i + 2
    /\ path[i + 2] = dest
    /\ path[1] = start

\* C24: the intersected list returned by calculateAvoidingPath contains
\* exactly the input zones z for which pathIntersectsZone(final path, z) is
\* true, in input order and without duplicates, whether the loop ended because
\* a pass made no change or because the pass budget was used up; it is empty
\* whenever the final path crosses no zone.
C24_IntersectedIsFilterOfFinalPath ==
    pc = "done" =>
        /\ \A k \in 1..Len(zones) :
               Contains(intersected, zones[k]) <=> pathIntersectsZone(path, zones[k])
        /\ \A m \in 1..Len(intersected) : Contains(zones, intersected[m])
        /\ \A m, n \in 1..Len(intersected) :
               m < n => \E k, l \in 1..Len(zones) :
                           /\ k < l
                           /\ zones[k] = intersected[m]
                           /\ zones[l] = intersected[n]

\* the pass budget was used up and the final path still crosses a zone
C24_Witness ==
    /\ pc = "done"
    /\ iter = maxIterations
    /\ Len(intersected) >= 1
    /\ Len(path) > 2

----------------------------------------------------------------------------
(* Clearing a zone for one flight (AppSpec)                                *)

\* the step in which handleClearZone(id) ran
ClearStep(id) == clearedZoneIds' = Append(clearedZoneIds, id)

RowsOf(id) == {k \in 1..Len(NfzRows) : NfzRows[k].id = id}

OfferedForClearing(id) ==
    \E k \in RowsOf(id) : "Clear for this flight" \in NfzRows[k].buttons

ShownAsCleared(id) ==
    \E k \in RowsOf(id) : "Cleared" \in NfzRows[k].texts

UndoOffered(id) ==
    \E k \in RowsOf(id) : "Undo" \in NfzRows[k].buttons

\* the route is NO GO and would be GO with this one zone out of the way
OnlyNoGoCause(id) ==
    /\ StatusText = "Flight is NO GO"
    /\ StatusTextOf(flightInfoOf(
           AvoidingRoute(scene, countryFeatures \ {id}).path, selected))
         = "Flight is GO"

\* C16: when the route lists a no-fly zone and the user clears it for this
\* flight, the zone is no longer offered for clearing in the route's list, it
\* is shown as cleared, and if it was the only zone making the route NO GO
\* the flight status becomes GO.
C16_ClearedZoneShownAndStatusGo ==
    [][\A id \in AppZoneIds :
          ClearStep(id) =>
              /\ ~OfferedForClearing(id)'
              /\ ShownAsCleared(id)'
              /\ (OnlyNoGoCause(id) => StatusText' = "Flight is GO")]_vars

\* C17: clearing a zone and then undoing the clearance is a round trip: every
\* zone cleared for this flight stays in the list as a cleared entry with an
\* Undo control that puts it back as an active entry, leaves no cleared
\* entry and restores the NO GO status.
C17_ClearedZoneCanBeUndone ==
    \A k \in 1..Len(clearedZoneIds) :
        /\ ShownAsCleared(clearedZoneIds[k])
        /\ UndoOffered(clearedZoneIds[k])

----------------------------------------------------------------------------
(* Zone activity, clearances and countries in the App (AppSpec)            *)

\* the step in which focusDestination planned a route: for another mission, or
\* again for the selected one after a clearance
PlanStep ==
    /\ mapLoaded
    /\ \/ scene' # scene
       \/ /\ \E id \in AppZoneIds : ClearStep(id)
          /\ selected
          /\ ~disableFocus

\* the zones the planned path goes around
DetouredZones(fp) == (fp.length - 2) \div 2

\* C23: route planning never detours around, and never reports as violated,
\* a zone that isZoneActive classifies as inactive at the moment the route is
\* planned, including a zone that was active when its country was loaded and
\* became inactive before focusDestination ran.
C23_PlanningSkipsInactiveZones ==
    [][PlanStep =>
         /\ \A k \in 1..Len(routeNoFlyZones') :
                isZoneActive(ZoneProps(routeNoFlyZones'[k]), appNow) = "true"
         /\ DetouredZones(flightPath') =
                Cardinality({z \in countryFeatures' \cap scene'.crossing :
                                isZoneActive(ZoneProps(z), appNow) = "true"})]_vars

CountryOfZone(z) == CHOOSE c \in CountryIds : z \in ZonesOfCountry(c)

\* the step in which focusDestination planned the route to another destination
NewDestinationStep == scene' # scene /\ mapLoaded

\* C26: a zone cleared with handleClearZone is excluded from routing only for
\* the flight it was cleared for: after focusDestination is later called for a
\* different destination (without a cleared-ids override), clearedZoneIds is
\* empty and the previously cleared zone, still active and of the country
\* still selected, is again among the zones passed to the planner.
C26_ClearanceEndsWithTheFlight ==
    [][NewDestinationStep =>
         /\ clearedZoneIds' = <<>>
         /\ \A k \in 1..Len(clearedZoneIds) :
                LET z == clearedZoneIds[k]
                IN  (/\ selectedCountryId = CountryOfZone(z)
                     /\ pendingCountries = {}
                     /\ isZoneActive(ZoneProps(z), appNow) = "true")
                        => z \in countryFeatures']_vars

\* the countries some held feature belongs to
CountriesHeld == {c \in CountryIds : countryFeatures \cap ZonesOfCountry(c) # {}}

\* C27: after any sequence of toggleCountry calls, including calls issued
\* while the fetch of an earlier call is still pending, the zone features held
\* for routing belong to at most one country, and once all calls have
\* completed that country is the one recorded in selectedCountryId (or no
\* features are held when selectedCountryId is null).
C27_FeaturesOfOneSelectedCountry ==
    mapLoaded =>
        /\ Cardinality(CountriesHeld) <= 1
        /\ pendingCountries = {} => CountriesHeld \subseteq {selectedCountryId}

----------------------------------------------------------------------------
(* fetchActiveGeozones against isZoneActive (FetchSpec)                    *)

\* C28: every zone returned by fetchActiveGeozones is classified active by
\* isZoneActive evaluated on the zone's merged properties at the same instant
\* now, for every combination of Specific, General and Condition records
\* attached to it (including a General permanent record whose status is
\* "recurring" and whose dates lie outside now).
C28_ReturnedZonesAreClassifiedActive ==
    fpc = "done"
        => \A k \in 1..Len(fetched) : isZoneActive(fetched[k], fetchNow) = "true"

----------------------------------------------------------------------------
(* buildPath on its own (BuildSpec)                                        *)

\* C25: buildPath(ring, startIdx, endIdx, direction) terminates for every
\* closed ring of at least 3 distinct vertices, every direction in {+1, -1}
\* and every startIdx and endIdx in 0..ring.length-1, and returns at most
\* ring.length-1 vertices, the last of which is ring[endIdx] (an empty list
\* when startIdx equals endIdx).
C25_BuildPathTerminatesWithinRing ==
    /\ bPc \in {"loop", "done"} => Len(bRes) <= Len(buildArgs.ring) - 1
    /\ bPc # "overflow"
    /\ bPc = "done" =>
          IF buildArgs.startIdx = buildArgs.endIdx THEN bRes = <<>>
          ELSE bRes[Len(bRes)] = buildArgs.ring[buildArgs.endIdx + 1]

----------------------------------------------------------------------------
(* The battery checks of getFlightGoNoGo (FlightSpec)                      *)

\* a call of getFlightGoNoGo with a distance > 0 has returned its checks
ChecksReturned ==
    /\ "getFlightGoNoGo" \in called
    /\ flightArgs.distance.k = "number"
    /\ flightArgs.distance.v > 0

\* takeoff + outbound cruise + return cruise + landing consumption is less
\* than the practical battery capacity, in exact arithmetic: the inequality
\* 1 + d / 13 / 60 + d / 8.5 / 60 + 1 < 21 multiplied by 13 * 60 * 85
EnoughBattery(distance) ==
    MagLess(MagTimes(DoubleOfDistance(distance).mag,
                     droneFlightCurrentCapacityConsumptionAtMaxSpeedInAhPerMinute
                         * (groundSpeedToHomeInTenths
                            + 10 * groundSpeedToDestinationInMetersPerSecond)),
            MagOfInt((practicalBatteryCapacityInAh
                      - droneTakeOffCurrentCapacityConsumptionInAh
                      - droneLandingCurrentCapacityConsumptionInAh)
                     * groundSpeedToDestinationInMetersPerSecond * 60
                     * groundSpeedToHomeInTenths))

\* C29: in every result of getFlightGoNoGo with distance > 0 the checks
\* outboundCapacityCheck, timeOnStationBatteryCheck and returnCapacityCheck
\* have the same truth value: each holds exactly when outbound cruise
\* consumption + return cruise consumption + takeoff + landing consumption is
\* less than the practical battery capacity.
C29_CapacityChecksAgree ==
    ChecksReturned
        => /\ verdict.outboundCapacityCheck = EnoughBattery(flightArgs.distance)
           /\ verdict.timeOnStationBatteryCheck = EnoughBattery(flightArgs.distance)
           /\ verdict.returnCapacityCheck = EnoughBattery(flightArgs.distance)

\* the calls that differ from the call made in one of wind speed, gust, wind
\* direction or destination coordinates; any two calls with the same distance
\* are linked by a chain of such calls
OtherCalls ==
    {[flightArgs EXCEPT !.windSpeed = w] : w \in WindSpeeds}
        \cup {[flightArgs EXCEPT !.gustSpeed = g] : g \in GustSpeeds}
        \cup {[flightArgs EXCEPT !.windFromDeg = d] : d \in WindDirections}
        \cup {[flightArgs EXCEPT !.dst = d] : d \in Destinations}

\* C30: the three capacity checks of getFlightGoNoGo and the time on station
\* depend on the distance only: a call with the same distance > 0 and another
\* wind speed, gust, wind direction or destination gives the same
\* outboundCapacityCheck, timeOnStationBatteryCheck, returnCapacityCheck and
\* calculateTimeOnStation value, whatever ground speeds it returns.
C30_CapacityDependsOnDistanceOnly ==
    ChecksReturned
        => \A other \in OtherCalls :
               LET result == getFlightGoNoGo(other)
               IN  /\ result.outboundCapacityCheck = verdict.outboundCapacityCheck
                   /\ result.timeOnStationBatteryCheck
                          = verdict.timeOnStationBatteryCheck
                   /\ result.returnCapacityCheck = verdict.returnCapacityCheck
                   /\ calculateTimeOnStation(DoubleOfDistance(other.distance))
                          = calculateTimeOnStation(
                                DoubleOfDistance(flightArgs.distance))

\* a call at 5859 m has passed the capacity checks at the nominal ground
\* speed, while another wind gives a slower outbound ground speed
C30_Witness ==
    /\ ChecksReturned
    /\ flightArgs.distance = Num(5859)
    /\ verdict.outboundCapacityCheck
    /\ verdict.outboundGroundSpeed
           = nokiaFleetControlGroundSpeedLimitInMetersPerSecond * Milli
    /\ \E other \in OtherCalls :
           getFlightGoNoGo(other).outboundGroundSpeed < verdict.outboundGroundSpeed

====
